---- MODULE Spec2Model ----
(***************************************************************************)
(* Model of the contact-vis front end: the in-memory CacheManager, the     *)
(* DataLoader (aggregation of contact records, look-ahead cache, loads)    *)
(* and the Visualization's timestamp switching and new-contacts list.      *)
(*                                                                         *)
(* Three specifications share the definitions below:                       *)
(*   SpecCache  the CacheManager alone, driven by arbitrary calls and a    *)
(*              clock;                                                     *)
(*   SpecAgg    the aggregation functions applied to bounded record lists; *)
(*   Spec       the application: init, setTimestamp, the responses of the  *)
(*              data service in every order, prefetch, new contacts.       *)
(***************************************************************************)
EXTENDS Integers, Sequences, FiniteSets, Bags, TLC

VARIABLES
    \* ---- CacheManager (cache-manager.js)
    memoryCache,      \* cacheKey -> [data, timestamp, ttl]
    clock,            \* Date.now()
    ticks,            \* how often the clock advanced (bounded)
    \* ---- the last CacheManager call of SpecCache and what it returned
    cacheOp,          \* [op, type, key]
    cacheRet,         \* [found, data]
    written,          \* history: cacheKey -> [data, at, ttl] of the last set not
                      \* followed by a delete or clearAll (ttl as the store took it)
    cacheOps,         \* calls left (bounded)
    \* ---- DataLoader (data-loader.js)
    rawData,          \* records of the current timestamp
    contacts,         \* contact pairs of the current timestamp
    bounds,           \* bounds of the current timestamp
    allTimestamps,    \* the timestamps of the data service, in order
    dataCache,        \* look-ahead cache: timestamp -> [rawData, contacts, bounds]
    \* ---- Visualization (visualization.js) and the page it draws
    currentTimestamp, \* mapAnimation.currentTimestamp: <<>> (null) or <<timestamp>>
    allNewContacts,   \* the new-contacts list
    lastCalc,         \* history: the new-contacts computation that set allNewContacts
    drawnMap,         \* what drawMapAtTimestamp drew last: <<>> or <<[timestamp, contacts]>>
    totalContacts,    \* text of #total-contacts: <<>> or <<count>>
    sliderValue,      \* value of #timestamp-slider
    \* ---- the event loop and the data service
    phase,            \* "constructed" until App.init has run, then "running"
    requests,         \* bag of the fetches in flight, each with what its continuation holds
    svc,              \* the data service: timestamp -> records of /api/contacts/<timestamp>
    calls,            \* number of setTimestamp calls made
    failures,         \* number of fetches that have failed
    lastStep,         \* history: the handler that ran last
    served,           \* history: the timestamps loadDataByTimestamp has loaded
    \* ---- DataLoader queries and the repository call that ran last (SpecRepo)
    userContacts,     \* userId -> direct contacts of the user
    userSecondaryContacts, \* userId -> secondary contacts of the user
    repoOp,           \* history: the call, how its fetch ended, what it did
    repoRet,          \* history: what the call returned
    repoOps,          \* number of repository calls made
    preloadedAt,      \* history: timestamp -> clock at which its look-ahead entry was fetched
    \* ---- SpecAgg: the inputs and what the functions returned
    aggInput,         \* the record list handed to the aggregator
    mergeInput,       \* the timestamp list handed to mergeTimePeriods
    aggOp,            \* [op, contactType]: the function applied
    aggResult,        \* what processContactData returned
    mergeResult,      \* what mergeTimePeriods returned
    \* ---- Visualization: the timeline's controls (SpecSlider)
    sliderThrottleTimer,     \* number of throttle timeouts pending
    sliderPendingTimestamp,  \* _sliderPendingTimestamp: <<>> for null, else <<timestamp>>
    lastRequestedTimestamp,  \* _lastRequestedTimestamp: <<>> for null, else <<timestamp>>
    lastSetTimestamp,        \* history: the argument of the last setTimestamp call
    uiEvents,                \* number of user events handled
    \* ---- App.queryUser and the rendered query results (SpecQuery)
    appQueryUserId,          \* App.currentQueryUserId: <<>> for null, else <<userId>>
    visQueryUserId,          \* Visualization.currentQueryUserId: <<>> for null, else <<userId>>
    currentDirectContacts,   \* Visualization.currentDirectContacts
    currentSecondaryContacts,\* Visualization.currentSecondaryContacts
    queries,                 \* the queryUser calls waiting for a fetch, in the order they began to wait
    queryCalls,              \* number of queryUser calls made
    \* ---- Visualization: playback (SpecPlay)
    playing,                 \* mapAnimation.playing
    timers,                  \* number of interval timers that are set
    playCalls,               \* number of playMapAnimation calls made
    playbackTicks            \* history: number of interval callbacks that have run, up to MaxPlaybackTicks

cacheVars == <<memoryCache, clock, ticks, cacheOp, cacheRet, written, cacheOps>>
loaderVars == <<rawData, contacts, bounds, allTimestamps, dataCache>>
visVars == <<currentTimestamp, allNewContacts, lastCalc, drawnMap, totalContacts, sliderValue>>
netVars == <<phase, requests, svc, calls, failures, lastStep, served>>
repoVars == <<userContacts, userSecondaryContacts, repoOp, repoRet, repoOps, preloadedAt>>
aggVars == <<aggInput, mergeInput, aggOp, aggResult, mergeResult>>
queryVars == <<appQueryUserId, visQueryUserId, currentDirectContacts,
               currentSecondaryContacts, queries, queryCalls>>
playVars == <<playing, timers, playCalls, playbackTicks>>
uiVars == <<sliderThrottleTimer, sliderPendingTimestamp, lastRequestedTimestamp,
            lastSetTimestamp, uiEvents, queryVars, playVars>>

nonCacheVars == <<loaderVars, visVars, netVars, aggVars, repoVars, uiVars>>

vars == <<cacheVars, loaderVars, visVars, netVars, aggVars, repoVars, uiVars>>

NULL == "null"

\* ------------------------------------------------------------------------
\* Bounds of the model
\* ------------------------------------------------------------------------
MaxTicks == 2
MaxCacheOps == 3
MaxRecords == 3       \* length of a record list handed to the aggregator
MaxMergeTs == 5       \* largest timestamp of a list handed to mergeTimePeriods
MaxCalls == 3         \* setTimestamp calls of a behaviour of Spec
MaxTypedRecords == 2  \* length of a list of records with varied contact_type and through
MaxRepoOps == 2       \* DataLoader calls of a behaviour of SpecRepo
MaxUiEvents == 3      \* slider inputs and button presses of a behaviour of SpecSlider
MaxQueryCalls == 2    \* queryUser calls of a behaviour of SpecQuery
MaxPlayCalls == 3     \* playMapAnimation calls of a behaviour of SpecPlay
MaxPlaybackTicks == 3 \* interval callbacks that playbackTicks counts
MaxFailures == 1      \* fetches of a behaviour of Spec that do not end in a parsed 2xx body

\* ------------------------------------------------------------------------
\* CacheManager
\* ------------------------------------------------------------------------
prefix == "trajectory_cache_"

defaultTTL ==
    [ timestamps   |-> 60 * 60 * 1000,
      bounds       |-> 60 * 60 * 1000,
      contacts     |-> 30 * 60 * 1000,
      userContacts |-> 15 * 60 * 1000,
      trajectory   |-> 15 * 60 * 1000 ]

fallbackTTL == 15 * 60 * 1000

\* Mutation of getCacheKey: the category is left out of the key.
getCacheKeyWithoutType(type, key) == prefix \o key

getCacheKey(type, key) == prefix \o type \o "_" \o key

\* get(type, key) at time now: the value returned and the store it leaves.
getExtending(mc, now, type, key) ==
    LET cacheKey == getCacheKey(type, key) IN
    IF cacheKey \notin DOMAIN mc
    THEN [found |-> FALSE, data |-> NULL, cache |-> mc]
    ELSE LET cached == mc[cacheKey]
             age == now - cached.timestamp IN
         IF age > cached.ttl
         THEN [found |-> FALSE, data |-> NULL,
               cache |-> [k \in DOMAIN mc \ {cacheKey} |-> mc[k]]]
         ELSE [found |-> TRUE, data |-> cached.data,
               cache |-> [mc EXCEPT ![cacheKey].timestamp = now]]

get(mc, now, type, key) ==
    LET cacheKey == getCacheKey(type, key) IN
    IF cacheKey \notin DOMAIN mc
    THEN [found |-> FALSE, data |-> NULL, cache |-> mc]
    ELSE LET cached == mc[cacheKey]
             age == now - cached.timestamp IN
         IF age > cached.ttl
         THEN [found |-> FALSE, data |-> NULL,
               cache |-> [k \in DOMAIN mc \ {cacheKey} |-> mc[k]]]
         ELSE [found |-> TRUE, data |-> cached.data, cache |-> mc]

\* ttl || this.defaultTTL[type] || 15 * 60 * 1000 : null and 0 are falsy.
\* The ttl argument is <<>> when omitted (null) and <<n>> when given.
cacheTTL(type, ttl) ==
    IF ttl # <<>> /\ ttl[1] # 0 THEN ttl[1]
    ELSE IF type \in DOMAIN defaultTTL THEN defaultTTL[type]
    ELSE fallbackTTL

\* Mutation of set: an entry already stored under the key is kept.
setKeepingFirst(mc, now, type, key, data, ttl) ==
    LET cacheKey == getCacheKey(type, key)
        cacheData == [data |-> data, timestamp |-> now, ttl |-> cacheTTL(type, ttl)]
    IN [k \in DOMAIN mc \cup {cacheKey} |-> IF k \in DOMAIN mc THEN mc[k] ELSE cacheData]

set(mc, now, type, key, data, ttl) ==
    LET cacheKey == getCacheKey(type, key)
        cacheData == [data |-> data, timestamp |-> now, ttl |-> cacheTTL(type, ttl)]
    IN [k \in DOMAIN mc \cup {cacheKey} |-> IF k = cacheKey THEN cacheData ELSE mc[k]]

delete(mc, type, key) ==
    [k \in DOMAIN mc \ {getCacheKey(type, key)} |-> mc[k]]

clearAll(mc) == <<>>

\* ------------------------------------------------------------------------
\* SpecCache: the CacheManager under arbitrary calls
\* ------------------------------------------------------------------------
CacheTypes == {"timestamps", "bounds", "contacts", "userContacts", "trajectory"}
CacheIds == {<<"contacts", "5">>, <<"trajectory", "5">>, <<"contacts", "6">>}
CacheValues == {"v1", "v2"}
TtlArgs == {<<>>, <<0>>, <<1>>}
ClockSteps == {1, 30 * 60 * 1000}

NoOp == [op |-> "none", type |-> NULL, key |-> NULL]
NoAggOp == [op |-> "none", contactType |-> NULL]

\* DataLoader's constructor.
LoaderConstructed ==
    /\ rawData = <<>>
    /\ contacts = <<>>
    /\ bounds = [kind |-> "infinite"]
    /\ allTimestamps = <<>>
    /\ dataCache = <<>>

NoCalc == [previous |-> "never"]
NoStep == [kind |-> "none"]

\* Visualization's constructor, before App.init.
VisConstructed ==
    /\ currentTimestamp = <<>>
    /\ allNewContacts = <<>>
    /\ lastCalc = NoCalc
    /\ drawnMap = <<>>
    /\ totalContacts = <<>>
    /\ sliderValue = 0

\* Nothing runs and nothing is in flight (SpecCache, SpecAgg).
NetIdle ==
    /\ phase = "constructed"
    /\ requests = EmptyBag
    /\ svc = <<>>
    /\ calls = 0
    /\ failures = 0
    /\ lastStep = NoStep
    /\ served = {}

NoRepoOp == [op |-> "none"]
NoRepoRet == [kind |-> "none"]

\* The query results of a new DataLoader; no repository call made yet.
RepoConstructed ==
    /\ userContacts = <<>>
    /\ userSecondaryContacts = <<>>
    /\ repoOp = NoRepoOp
    /\ repoRet = NoRepoRet
    /\ repoOps = 0
    /\ preloadedAt = <<>>

\* The timeline's controls as the Visualization constructor leaves them.
UiConstructed ==
    /\ sliderThrottleTimer = 0
    /\ sliderPendingTimestamp = <<>>
    /\ lastRequestedTimestamp = <<>>
    /\ lastSetTimestamp = <<>>
    /\ uiEvents = 0
    /\ appQueryUserId = <<>>
    /\ visQueryUserId = <<>>
    /\ currentDirectContacts = <<>>
    /\ currentSecondaryContacts = <<>>
    /\ queries = <<>>
    /\ queryCalls = 0
    /\ playing = FALSE
    /\ timers = 0
    /\ playCalls = 0
    /\ playbackTicks = 0

\* The CacheManager's constructor; no call made yet.
CacheConstructed ==
    /\ memoryCache = <<>>
    /\ clock = 0
    /\ ticks = 0
    /\ cacheOp = NoOp
    /\ cacheRet = [found |-> FALSE, data |-> NULL]
    /\ written = <<>>
    /\ cacheOps = 0

AggIdle ==
    /\ aggInput = <<>>
    /\ mergeInput = <<>>
    /\ aggOp = NoAggOp
    /\ aggResult = <<>>
    /\ mergeResult = <<>>
NoRet == [found |-> FALSE, data |-> NULL]

InitCache ==
    /\ memoryCache = <<>>
    /\ clock = 0
    /\ ticks = 0
    /\ cacheOp = NoOp
    /\ cacheRet = NoRet
    /\ written = <<>>
    /\ cacheOps = MaxCacheOps
    /\ LoaderConstructed
    /\ VisConstructed
    /\ NetIdle
    /\ RepoConstructed
    /\ UiConstructed
    /\ AggIdle

Tick ==
    /\ ticks < MaxTicks
    /\ \E d \in ClockSteps : clock' = clock + d
    /\ ticks' = ticks + 1
    /\ cacheOp' = NoOp
    /\ cacheRet' = NoRet
    /\ UNCHANGED <<memoryCache, written, cacheOps, nonCacheVars>>

CacheSet ==
    /\ cacheOps > 0
    /\ \E id \in CacheIds, v \in CacheValues, ttl \in TtlArgs :
         LET ck == getCacheKey(id[1], id[2])
             mc == set(memoryCache, clock, id[1], id[2], v, ttl)
             w == [ data |-> v, at |-> clock, ttl |-> mc[ck].ttl,
                    replaced |-> IF ck \in DOMAIN memoryCache
                                 THEN memoryCache[ck].data ELSE NULL ] IN
         /\ memoryCache' = mc
         /\ cacheOp' = [op |-> "set", type |-> id[1], key |-> id[2], ttl |-> ttl]
         /\ written' = [k \in DOMAIN written \cup {ck} |->
                           IF k = ck THEN w ELSE written[k]]
    /\ cacheRet' = NoRet
    /\ cacheOps' = cacheOps - 1
    /\ UNCHANGED <<clock, ticks, nonCacheVars>>

CacheGet ==
    /\ cacheOps > 0
    /\ \E id \in CacheIds :
         LET r == get(memoryCache, clock, id[1], id[2]) IN
         /\ memoryCache' = r.cache
         /\ cacheRet' = [found |-> r.found, data |-> r.data]
         /\ cacheOp' = [op |-> "get", type |-> id[1], key |-> id[2]]
    /\ cacheOps' = cacheOps - 1
    /\ UNCHANGED <<clock, ticks, written, nonCacheVars>>

CacheDelete ==
    /\ cacheOps > 0
    /\ \E id \in CacheIds :
         /\ memoryCache' = delete(memoryCache, id[1], id[2])
         /\ cacheOp' = [op |-> "delete", type |-> id[1], key |-> id[2]]
         /\ written' = [k \in DOMAIN written \ {getCacheKey(id[1], id[2])} |-> written[k]]
    /\ cacheRet' = NoRet
    /\ cacheOps' = cacheOps - 1
    /\ UNCHANGED <<clock, ticks, nonCacheVars>>

CacheClearAll ==
    /\ cacheOps > 0
    /\ memoryCache' = clearAll(memoryCache)
    /\ cacheOp' = [op |-> "clearAll", type |-> NULL, key |-> NULL]
    /\ written' = <<>>
    /\ cacheRet' = NoRet
    /\ cacheOps' = cacheOps - 1
    /\ UNCHANGED <<clock, ticks, nonCacheVars>>

NextCache ==
    \/ Tick
    \/ CacheSet
    \/ CacheGet
    \/ CacheDelete
    \/ CacheClearAll

SpecCache == InitCache /\ [][NextCache]_vars

\* C1: after set(category,key,v) at t0 with effective TTL L and no later
\* set/delete/clear of that key, a get at time t with t - t0 <= L returns v and
\* keeps the entry (earlier gets did not extend its lifetime, which still counts
\* from t0); a get with t - t0 > L returns absent and the entry is gone from the
\* store, so that a repeated get returns absent too.
C1_CacheTTL ==
    (cacheOp.op = "get" /\ getCacheKey(cacheOp.type, cacheOp.key) \in DOMAIN written) =>
        LET ck == getCacheKey(cacheOp.type, cacheOp.key)
            w == written[ck] IN
        IF clock - w.at <= w.ttl
        THEN /\ cacheRet.found
             /\ cacheRet.data = w.data
             /\ ck \in DOMAIN memoryCache
        ELSE /\ ~cacheRet.found
             /\ ck \notin DOMAIN memoryCache

\* The lifetimes the categories are documented to have.
DocumentedTTL ==
    [ timestamps   |-> 3600000,
      bounds       |-> 3600000,
      contacts     |-> 1800000,
      userContacts |-> 900000,
      trajectory   |-> 900000 ]

\* C19: TTL selection.  set(category, key, data, ttlOverride) stores the entry
\* with ttl equal to ttlOverride whenever an override is supplied, for every
\* override value including 0, and otherwise with the category default: 1 hour
\* for timestamps and bounds, 30 minutes for contacts, 15 minutes for
\* userContacts and trajectory.
C19_TtlSelection ==
    /\ defaultTTL = DocumentedTTL
    /\ cacheOp.op = "set" =>
          memoryCache[getCacheKey(cacheOp.type, cacheOp.key)].ttl
              = IF cacheOp.ttl # <<>> THEN cacheOp.ttl[1] ELSE DocumentedTTL[cacheOp.type]

\* C20: last-writer-wins.  After any sequence of set calls on a category and
\* key, the entry stored is that of the most recent set, with its data, its
\* creation time and its ttl; a get within that ttl finds the entry, and a get
\* that finds an entry returns the data of the most recent set, never an
\* earlier value.
C20_LastWriterWins ==
    /\ \A ck \in DOMAIN memoryCache :
          /\ ck \in DOMAIN written
          /\ memoryCache[ck] = [ data |-> written[ck].data,
                                 timestamp |-> written[ck].at,
                                 ttl |-> written[ck].ttl ]
    /\ cacheOp.op = "get" =>
          LET ck == getCacheKey(cacheOp.type, cacheOp.key) IN
          /\ cacheRet.found => (ck \in DOMAIN written /\ cacheRet.data = written[ck].data)
          /\ (ck \in DOMAIN written /\ clock - written[ck].at <= written[ck].ttl)
                => cacheRet.found

\* A get returned the data of a set that replaced a different value, the
\* replacing set having been made later than time 0.
C20_Witness ==
    /\ cacheOp.op = "get"
    /\ cacheRet.found
    /\ getCacheKey(cacheOp.type, cacheOp.key) \in DOMAIN written
    /\ written[getCacheKey(cacheOp.type, cacheOp.key)].replaced
           \notin {NULL, cacheRet.data}
    /\ written[getCacheKey(cacheOp.type, cacheOp.key)].at > 0

\* Keys as the callers form them: timestamps, "all", user and pair keys.
IsolationKeys == {"5", "6", "all", "direct_7", "secondary_7", "5_9", "contacts_5"}

\* What get(type, key) would return from a store at a time.
Lookup(mc, now, id) ==
    [found |-> get(mc, now, id[1], id[2]).found, data |-> get(mc, now, id[1], id[2]).data]

\* C21: cache key isolation.  Over the five categories and all keys, no other
\* (category, key) pair has the store key of the pair a call is made on; and a
\* set, a delete or the expiry on a get of one (category, key) leaves what get
\* returns for every other (category, key) as it was.
C21_KeyIsolation ==
    /\ [](cacheOp.op \in {"set", "delete", "get"}
            => \A t \in CacheTypes, k \in IsolationKeys :
                  getCacheKey(t, k) = getCacheKey(cacheOp.type, cacheOp.key)
                      => (t = cacheOp.type /\ k = cacheOp.key))
    /\ [][ cacheOp'.op \in {"set", "delete", "get"}
              => \A id \in CacheIds \ {<<cacheOp'.type, cacheOp'.key>>} :
                    Lookup(memoryCache', clock', id) = Lookup(memoryCache, clock', id)
        ]_vars

\* set("contacts", "5", X) was done while ("trajectory", "5") held other data.
C21_Witness ==
    /\ cacheOp.op = "set"
    /\ cacheOp.type = "contacts"
    /\ cacheOp.key = "5"
    /\ getCacheKey("trajectory", "5") \in DOMAIN memoryCache
    /\ memoryCache[getCacheKey("trajectory", "5")].data
           # memoryCache[getCacheKey("contacts", "5")].data

\* A get that found the entry of an earlier set expired.
C1_Witness ==
    /\ cacheOp.op = "get"
    /\ getCacheKey(cacheOp.type, cacheOp.key) \in DOMAIN written
    /\ clock - written[getCacheKey(cacheOp.type, cacheOp.key)].at
          > written[getCacheKey(cacheOp.type, cacheOp.key)].ttl
    /\ ~cacheRet.found

\* ------------------------------------------------------------------------
\* DataLoader: aggregation of raw contact records (data-loader.js)
\*
\* A record is [id1, id2, timestamp, lat, lng, contact_type, through]; a missing
\* contact_type is NULL, a missing through is <<>> and a given one <<id>>.
\* ------------------------------------------------------------------------

\* record.id1 < record.id2 ? [id1, id2] : [id2, id1]
smallerLargerAsGiven(id1, id2) == <<id1, id2>>

\* Mutation of smallerLarger: the larger id first.
smallerLargerSwapped(id1, id2) == IF id1 < id2 THEN <<id2, id1>> ELSE <<id1, id2>>

smallerLarger(id1, id2) == IF id1 < id2 THEN <<id1, id2>> ELSE <<id2, id1>>

\* `${smaller}|${larger}`
contactKey(p) == ToString(p[1]) \o "|" \o ToString(p[2])

\* Mutation of typeOr: the fallback type whatever the record says.
typeAlwaysFallback(contact_type, contactType) == contactType

\* record.contact_type || contactType
typeOr(contact_type, contactType) ==
    IF contact_type = NULL THEN contactType ELSE contact_type

pointOf(record, contactType) ==
    [ timestamp    |-> record.timestamp,
      lng          |-> record.lng,
      lat          |-> record.lat,
      contact_type |-> typeOr(record.contact_type, contactType) ]

\* Position of key in the insertion-ordered contactMap (0: not there).
RECURSIVE indexOfKey(_, _, _)
indexOfKey(cm, key, i) ==
    IF i > Len(cm) THEN 0
    ELSE IF cm[i].key = key THEN i
    ELSE indexOfKey(cm, key, i + 1)

\* One iteration of the grouping loop over the records.
addRecord(cm, record, contactType) ==
    LET p == smallerLarger(record.id1, record.id2)
        key == contactKey(p)
        i == indexOfKey(cm, key, 1) IN
    IF i = 0
    THEN Append(cm,
           [ key |-> key,
             contact |->
               [ id1 |-> p[1],
                 id2 |-> p[2],
                 timestamps |-> <<record.timestamp>>,
                 points |-> <<pointOf(record, contactType)>>,
                 contact_type |-> typeOr(record.contact_type, contactType),
                 through |-> record.through ] ])
    ELSE [cm EXCEPT
            ![i].contact.timestamps = Append(@, record.timestamp),
            ![i].contact.points = Append(@, pointOf(record, contactType))]

RECURSIVE buildContactMap(_, _, _, _)
buildContactMap(cm, data, i, contactType) ==
    IF i > Len(data) THEN cm
    ELSE buildContactMap(addRecord(cm, data[i], contactType), data, i + 1, contactType)

\* Array.prototype.sort with comparator (a, b) => a - b on numbers.
RECURSIVE insertNumber(_, _)
insertNumber(sorted, x) ==
    IF sorted = <<>> THEN <<x>>
    ELSE IF x < Head(sorted) THEN <<x>> \o sorted
    ELSE <<Head(sorted)>> \o insertNumber(Tail(sorted), x)

RECURSIVE sortNumbers(_)
sortNumbers(s) ==
    IF s = <<>> THEN <<>>
    ELSE insertNumber(sortNumbers(SubSeq(s, 1, Len(s) - 1)), s[Len(s)])

\* Array.prototype.sort with comparator (a, b) => a.timestamp - b.timestamp:
\* the sort is stable (ECMAScript 2019), equal timestamps keep their order.
RECURSIVE insertPointBeforeEqual(_, _)
insertPointBeforeEqual(sorted, x) ==
    IF sorted = <<>> THEN <<x>>
    ELSE IF x.timestamp <= Head(sorted).timestamp THEN <<x>> \o sorted
    ELSE <<Head(sorted)>> \o insertPointBeforeEqual(Tail(sorted), x)

RECURSIVE insertPoint(_, _)
insertPoint(sorted, x) ==
    IF sorted = <<>> THEN <<x>>
    ELSE IF x.timestamp < Head(sorted).timestamp THEN <<x>> \o sorted
    ELSE <<Head(sorted)>> \o insertPoint(Tail(sorted), x)

RECURSIVE sortPoints(_)
sortPoints(s) ==
    IF s = <<>> THEN <<>>
    ELSE insertPoint(sortPoints(SubSeq(s, 1, Len(s) - 1)), s[Len(s)])

\* mergeTimePeriods: the loop from index i with the running (start, end).
RECURSIVE mergeLoop(_, _, _, _, _)
mergeLoop(timestamps, i, start, end, periods) ==
    IF i > Len(timestamps)
    THEN Append(periods, [start |-> start, end |-> end])
    ELSE IF timestamps[i] = end + 1
    THEN mergeLoop(timestamps, i + 1, start, timestamps[i], periods)
    ELSE mergeLoop(timestamps, i + 1, timestamps[i], timestamps[i],
                   Append(periods, [start |-> start, end |-> end]))

mergeTimePeriodsAcrossGaps(timestamps) ==
    IF Len(timestamps) = 0 THEN <<>>
    ELSE <<[start |-> timestamps[1], end |-> timestamps[Len(timestamps)]]>>

mergeTimePeriods(timestamps) ==
    IF Len(timestamps) = 0 THEN <<>>
    ELSE mergeLoop(timestamps, 2, timestamps[1], timestamps[1], <<>>)

\* The closing loop over contactMap.values(): sort both lists, merge the periods.
finishContact(contact) ==
    LET ts == sortNumbers(contact.timestamps) IN
    [ id1 |-> contact.id1,
      id2 |-> contact.id2,
      timestamps |-> ts,
      points |-> sortPoints(contact.points),
      contact_type |-> contact.contact_type,
      through |-> contact.through,
      timePeriods |-> mergeTimePeriods(ts) ]

processContactData(data, contactType) ==
    LET cm == buildContactMap(<<>>, data, 1, contactType) IN
    [i \in 1..Len(cm) |-> finishContact(cm[i].contact)]

\* Bounds: Infinity/-Infinity before any record, the box of the records after.
InfiniteBounds == [kind |-> "infinite"]
DefaultBounds == [kind |-> "default"]

Min(S) == CHOOSE x \in S : \A y \in S : x <= y
Max(S) == CHOOSE x \in S : \A y \in S : x >= y

boundsOf(data) ==
    IF Len(data) = 0 THEN InfiniteBounds
    ELSE [ kind |-> "box",
           minLat |-> Min({data[i].lat : i \in 1..Len(data)}),
           maxLat |-> Max({data[i].lat : i \in 1..Len(data)}),
           minLng |-> Min({data[i].lng : i \in 1..Len(data)}),
           maxLng |-> Max({data[i].lng : i \in 1..Len(data)}) ]

\* processContacts(): bounds (the default box when there is no record) and the
\* contacts of this.rawData.
processContacts(data) ==
    [ bounds |-> IF boundsOf(data) = InfiniteBounds THEN DefaultBounds ELSE boundsOf(data),
      contacts |-> processContactData(data, "direct") ]

\* ------------------------------------------------------------------------
\* SpecAgg: the aggregation functions applied to bounded inputs
\* ------------------------------------------------------------------------
AggIds == {1, 2}
AggTimestamps == {1, 2, 3}
AggLats == {1, 2}

AggRecords ==
    [ id1 : AggIds, id2 : AggIds, timestamp : AggTimestamps, lat : AggLats,
      lng : {1}, contact_type : {"direct"}, through : {<<>>} ]

RecordLists == UNION {[1..n -> AggRecords] : n \in 0..MaxRecords}

RECURSIVE SetToSortedSeq(_)
SetToSortedSeq(S) ==
    IF S = {} THEN <<>>
    ELSE LET m == Min(S) IN <<m>> \o SetToSortedSeq(S \ {m})

\* The ascending, duplicate-free timestamp lists.
AscendingLists == {SetToSortedSeq(S) : S \in SUBSET (1..MaxMergeTs)}

InitAgg ==
    /\ CacheConstructed
    /\ LoaderConstructed
    /\ VisConstructed
    /\ NetIdle
    /\ RepoConstructed
    /\ UiConstructed
    /\ aggOp = NoAggOp
    /\ aggResult = <<>>
    /\ mergeResult = <<>>
    /\ \/ aggInput \in RecordLists /\ mergeInput = <<>>
       \/ aggInput = <<>> /\ mergeInput \in AscendingLists

\* this.rawData = responseData; this.processContacts()
AggProcessContacts ==
    /\ aggOp = NoAggOp
    /\ mergeInput = <<>>
    /\ rawData' = aggInput
    /\ contacts' = processContacts(aggInput).contacts
    /\ bounds' = processContacts(aggInput).bounds
    /\ aggOp' = [op |-> "processContacts", contactType |-> "direct"]
    /\ UNCHANGED <<aggInput, mergeInput, aggResult, mergeResult, allTimestamps, dataCache,
                   cacheVars, visVars, netVars, repoVars, uiVars>>

\* processContactData(data, 'direct') and processContactData(data, 'indirect')
AggProcessContactData ==
    /\ aggOp = NoAggOp
    /\ mergeInput = <<>>
    /\ \E contactType \in {"direct", "indirect"} :
         /\ aggResult' = processContactData(aggInput, contactType)
         /\ aggOp' = [op |-> "processContactData", contactType |-> contactType]
    /\ UNCHANGED <<aggInput, mergeInput, mergeResult, loaderVars, cacheVars, visVars, netVars, repoVars, uiVars>>

AggMergeTimePeriods ==
    /\ aggOp = NoAggOp
    /\ aggInput = <<>>
    /\ mergeResult' = mergeTimePeriods(mergeInput)
    /\ aggOp' = [op |-> "mergeTimePeriods", contactType |-> NULL]
    /\ UNCHANGED <<aggInput, mergeInput, aggResult, loaderVars, cacheVars, visVars, netVars, repoVars, uiVars>>

NextAgg ==
    \/ AggProcessContacts
    \/ AggProcessContactData
    \/ AggMergeTimePeriods

SpecAgg == InitAgg /\ [][NextAgg]_vars

\* The contact pairs the aggregator produced in this state.
AggDone == aggOp.op \in {"processContacts", "processContactData"}
AggOutput ==
    IF aggOp.op = "processContacts" THEN contacts
    ELSE IF aggOp.op = "processContactData" THEN aggResult
    ELSE <<>>

SeqRange(s) == {s[i] : i \in 1..Len(s)}
IsAscending(s) == \A i \in 1..Len(s) - 1 : s[i] <= s[i + 1]
IsStrictlyAscending(s) == \A i \in 1..Len(s) - 1 : s[i] < s[i + 1]
PeriodIntegers(periods) == UNION {periods[i].start .. periods[i].end : i \in 1..Len(periods)}
PeriodsAscendingDisjoint(periods) ==
    /\ \A i \in 1..Len(periods) : periods[i].start <= periods[i].end
    /\ \A i \in 1..Len(periods) - 1 : periods[i].end < periods[i + 1].start

\* C5: on an ascending duplicate-free list mergeTimePeriods returns exactly the
\* maximal runs of consecutive integers: ascending disjoint periods whose integers
\* are the input's, two neighbouring periods separated by a gap (so t, t' share a
\* period iff t' = t + 1); [t] gives [{t,t}] and [] gives [].
C5_MergeMaximalRuns ==
    aggOp.op = "mergeTimePeriods" =>
        /\ PeriodsAscendingDisjoint(mergeResult)
        /\ PeriodIntegers(mergeResult) = SeqRange(mergeInput)
        /\ \A i \in 1..Len(mergeResult) - 1 :
              mergeResult[i + 1].start > mergeResult[i].end + 1
        /\ \A i \in 1..Len(mergeInput) - 1 :
              (\E k \in 1..Len(mergeResult) :
                   /\ mergeInput[i] \in mergeResult[k].start .. mergeResult[k].end
                   /\ mergeInput[i + 1] \in mergeResult[k].start .. mergeResult[k].end)
              <=> mergeInput[i + 1] = mergeInput[i] + 1
        /\ (Len(mergeInput) = 1 =>
              mergeResult = <<[start |-> mergeInput[1], end |-> mergeInput[1]]>>)
        /\ (mergeInput = <<>> => mergeResult = <<>>)

\* A list with a run, a gap larger than 1 and a second run was merged.
C5_Witness ==
    /\ aggOp.op = "mergeTimePeriods"
    /\ mergeInput = <<1, 2, 4, 5>>
    /\ mergeResult = <<[start |-> 1, end |-> 2], [start |-> 4, end |-> 5]>>

UnorderedPairs(data) == {{data[i].id1, data[i].id2} : i \in 1..Len(data)}
RecordsOfPair(data, u) == SelectSeq(data, LAMBDA r : {r.id1, r.id2} = u)
ContactsOfPair(out, u) == {i \in 1..Len(out) : {out[i].id1, out[i].id2} = u}

\* C6: records (a,b) and (b,a) go to the same ContactPair, keyed
\* (min(a,b), max(a,b)): the output holds exactly one ContactPair per unordered id
\* pair of the input, and it holds all the records of that pair.
C6_CanonicalGrouping ==
    AggDone =>
        /\ \A u \in UnorderedPairs(aggInput) :
              /\ Cardinality(ContactsOfPair(AggOutput, u)) = 1
              /\ \A i \in ContactsOfPair(AggOutput, u) :
                    /\ AggOutput[i].id1 = Min(u)
                    /\ AggOutput[i].id2 = Max(u)
                    /\ Len(AggOutput[i].points) = Len(RecordsOfPair(aggInput, u))
        /\ \A i \in 1..Len(AggOutput) :
              {AggOutput[i].id1, AggOutput[i].id2} \in UnorderedPairs(aggInput)

\* Records (1,2) and (2,1), in this order and in the other, were aggregated into
\* one pair.
C6_Witness ==
    /\ AggDone
    /\ Len(aggInput) = 3
    /\ aggInput[1].id1 = 2 /\ aggInput[1].id2 = 1
    /\ aggInput[2].id1 = 1 /\ aggInput[2].id2 = 2
    /\ aggInput[3].id1 = 2 /\ aggInput[3].id2 = 1
    /\ Len(AggOutput) = 1

\* C7 as stated: every ContactPair has id1 < id2 strictly.
C7_IdsStrictlyOrdered ==
    AggDone => \A i \in 1..Len(AggOutput) : AggOutput[i].id1 < AggOutput[i].id2

\* C7 as amended: every ContactPair has id1 <= id2, and id1 < id2 unless the
\* records of the pair name the same id twice (id1 = id2 in the input).
C7_IdsOrdered ==
    AggDone =>
        \A i \in 1..Len(AggOutput) :
            /\ AggOutput[i].id1 <= AggOutput[i].id2
            /\ AggOutput[i].id1 = AggOutput[i].id2 =>
                  \E k \in 1..Len(aggInput) :
                      /\ aggInput[k].id1 = AggOutput[i].id1
                      /\ aggInput[k].id2 = AggOutput[i].id1

\* A record with id1 > id2 and a record with id1 = id2 were aggregated.
C7_Witness ==
    /\ AggDone
    /\ \E k \in 1..Len(aggInput) : aggInput[k].id1 > aggInput[k].id2
    /\ \E k \in 1..Len(aggInput) : aggInput[k].id1 = aggInput[k].id2
    /\ Len(AggOutput) = 2

\* Every record names two different individuals.
TwoIndividuals(data) == \A k \in 1..Len(data) : data[k].id1 # data[k].id2

\* C8 as stated: the timestamps of every ContactPair are ascending without
\* duplicates, also when records of the pair share a timestamp (stated for the
\* record lists whose records each name two different individuals).
C8_TimestampsSortedDistinct ==
    (AggDone /\ TwoIndividuals(aggInput)) => \A i \in 1..Len(AggOutput) : IsStrictlyAscending(AggOutput[i].timestamps)

\* C9 as stated: the timePeriods of every ContactPair are pairwise disjoint,
\* ascending closed intervals whose integers are the pair's distinct timestamps
\* (stated for the record lists whose records each name two different
\* individuals).
C9_PeriodsDisjointCover ==
    (AggDone /\ TwoIndividuals(aggInput)) =>
        \A i \in 1..Len(AggOutput) :
            /\ PeriodsAscendingDisjoint(AggOutput[i].timePeriods)
            /\ PeriodIntegers(AggOutput[i].timePeriods) = SeqRange(AggOutput[i].timestamps)

PointPlace(x) == <<x.timestamp, x.lat, x.lng>>
PlacesAt(s, t) ==
    LET at == SelectSeq(s, LAMBDA x : x.timestamp = t) IN
    [k \in 1..Len(at) |-> PointPlace(at[k])]

\* C10: points holds one point per input record of the pair (records with the
\* same timestamp and location are kept apart), ascending by timestamp, and the
\* points of one timestamp are in the order of their records in the input.
C10_PointsStableSorted ==
    AggDone =>
        \A i \in 1..Len(AggOutput) :
            LET c == AggOutput[i]
                recs == RecordsOfPair(aggInput, {c.id1, c.id2}) IN
            /\ Len(c.points) = Len(recs)
            /\ \A k \in 1..Len(c.points) - 1 :
                  c.points[k].timestamp <= c.points[k + 1].timestamp
            /\ \A t \in AggTimestamps : PlacesAt(c.points, t) = PlacesAt(recs, t)

\* Three records of one pair: two of timestamp 2 at different places, then one of
\* timestamp 1, which the sort moves in front of them.
C10_Witness ==
    /\ AggDone
    /\ Len(aggInput) = 3
    /\ UnorderedPairs(aggInput) = {{1, 2}}
    /\ aggInput[1].timestamp = 2 /\ aggInput[1].lat = 2
    /\ aggInput[2].timestamp = 2 /\ aggInput[2].lat = 1
    /\ aggInput[3].timestamp = 1
    /\ Len(AggOutput) = 1
    /\ AggOutput[1].points[1].timestamp = 1
    /\ AggOutput[1].points[2].lat = 2
    /\ AggOutput[1].points[3].lat = 1


\* ------------------------------------------------------------------------
\* SpecAggTypes: the aggregation functions applied to records whose
\* contact_type is absent, direct or indirect and whose through is null or set
\* ------------------------------------------------------------------------
TypedRecords ==
    [ id1 : AggIds, id2 : AggIds, timestamp : {1, 2}, lat : {1}, lng : {1},
      contact_type : {NULL, "direct", "indirect"}, through : {<<>>, <<7>>} ]

TypedRecordLists == UNION {[1..n -> TypedRecords] : n \in 0..MaxTypedRecords}

InitAggTypes ==
    /\ CacheConstructed
    /\ LoaderConstructed
    /\ VisConstructed
    /\ NetIdle
    /\ RepoConstructed
    /\ UiConstructed
    /\ aggOp = NoAggOp
    /\ aggResult = <<>>
    /\ mergeResult = <<>>
    /\ mergeInput = <<>>
    /\ aggInput \in TypedRecordLists

NextAggTypes ==
    \/ AggProcessContacts
    \/ AggProcessContactData

SpecAggTypes == InitAggTypes /\ [][NextAggTypes]_vars

\* How often each element occurs in a sequence.
Occurrences(s) == [x \in SeqRange(s) |-> Cardinality({i \in 1..Len(s) : s[i] = x})]

\* The fallback type of the aggregation that ran.
FallbackType == IF aggOp.op = "processContacts" THEN "direct" ELSE aggOp.contactType

TypeWithFallback(record) ==
    IF record.contact_type = NULL THEN FallbackType ELSE record.contact_type

\* C11: contact_type and through of a ContactPair are those of the first
\* record of its group in input order, contact_type replaced by the fallback
\* type when that record has none; later records of the group do not change
\* them; each point carries its own record's contact_type with the same
\* fallback.
C11_TypeAndThroughOfFirstRecord ==
    AggDone =>
        \A i \in 1..Len(AggOutput) :
            LET c == AggOutput[i]
                group == RecordsOfPair(aggInput, {c.id1, c.id2})
            IN /\ c.contact_type = TypeWithFallback(group[1])
               /\ c.through = group[1].through
               /\ Occurrences([k \in 1..Len(c.points) |->
                                 <<c.points[k].timestamp, c.points[k].contact_type>>])
                    = Occurrences([k \in 1..Len(group) |->
                                     <<group[k].timestamp, TypeWithFallback(group[k])>>])

\* A group whose first record has no contact_type and a through, and whose
\* second record says indirect and has no through, was aggregated with the
\* fallback direct.
C11_Witness ==
    /\ AggDone
    /\ FallbackType = "direct"
    /\ Len(aggInput) = 2
    /\ aggInput[1].contact_type = NULL /\ aggInput[1].through = <<7>>
    /\ aggInput[2].contact_type = "indirect" /\ aggInput[2].through = <<>>
    /\ aggInput[1].id1 = 2 /\ aggInput[1].id2 = 1
    /\ aggInput[2].id1 = 1 /\ aggInput[2].id2 = 2
    /\ Len(AggOutput) = 1
    /\ AggOutput[1].contact_type = "direct"
    /\ AggOutput[1].through = <<7>>

\* ------------------------------------------------------------------------
\* The time axis: setTimestamp, the loads it starts and the new-contacts list
\* ------------------------------------------------------------------------

\* The ways a fetch can end: a parsed 2xx body, a non-OK status, a rejected
\* fetch, a 2xx status whose body is no JSON.
Outcomes == {"ok", "httpError", "networkError", "badBody"}

\* SpecRepo adds a 2xx status whose JSON body has the wrong shape.
RepoOutcomes == Outcomes \cup {"badShape"}

\* { error: '...' }, what the loader substitutes for a body it cannot parse.
ErrorObject == <<[error |-> "unparseable"]>>

\* allTimestamps.indexOf(timestamp) + 1
indexOf(timestamps, timestamp) ==
    Min({i \in 1..Len(timestamps) : timestamps[i] = timestamp})

\* Mutation of isStale: no response is ever stale.
neverStale(cur, timestamp) == FALSE

\* The guard of the then-callback: the load was for a timestamp that is no
\* longer mapAnimation.currentTimestamp.
isStale(cur, timestamp) == cur # <<timestamp>>

\* The first half of calculateAndRenderNewContacts: the pairs of
\* dataLoader.contacts with a point at currentTimestamp, each key once.
RECURSIVE currentContactsLoop(_, _, _, _, _)
currentContactsLoop(cs, i, timestamp, seen, out) ==
    IF i > Len(cs) THEN out
    ELSE LET contact == cs[i]
             at == {k \in 1..Len(contact.points) : contact.points[k].timestamp = timestamp}
             p == smallerLarger(contact.id1, contact.id2)
             key == contactKey(p)
         IN IF at # {} /\ key \notin seen
            THEN LET currentPoint == contact.points[Min(at)]
                 IN currentContactsLoop(cs, i + 1, timestamp, seen \cup {key},
                        Append(out, [ id1 |-> p[1], id2 |-> p[2],
                                      contact_type |-> typeOr(contact.contact_type, "direct"),
                                      through |-> contact.through,
                                      timestamp |-> timestamp,
                                      lat |-> currentPoint.lat,
                                      lng |-> currentPoint.lng ]))
            ELSE currentContactsLoop(cs, i + 1, timestamp, seen, out)

currentContactsDataOf(cs, timestamp) == currentContactsLoop(cs, 1, timestamp, {}, <<>>)

\* Mutation of previousContactsSet: keys of the previous records as given.
previousContactsSetAsGiven(previousData) ==
    {contactKey(<<previousData[i].id1, previousData[i].id2>>) : i \in 1..Len(previousData)}

\* The keys of the previous timestamp's records.
previousContactsSet(previousData) ==
    {contactKey(smallerLarger(previousData[i].id1, previousData[i].id2)) :
        i \in 1..Len(previousData)}

\* The previous fetch answered: current pairs whose key the previous records lack.
newContactsOf(currentContactsData, previousData) ==
    SelectSeq(currentContactsData,
              LAMBDA contact : contactKey(<<contact.id1, contact.id2>>)
                                   \notin previousContactsSet(previousData))

\* Mutation of newContactsOnFailure: a failed previous fetch reports nothing.
newContactsNoneOnFailure(currentContactsData) == <<>>

\* The previous fetch failed (non-OK status, or the catch block).
newContactsOnFailure(currentContactsData) == currentContactsData


\* [{}]: a 2xx JSON body that is a list whose element has none of the fields of
\* a record.  Every field read of it gives undefined.
MalformedList == <<[malformed |-> TRUE]>>

UNDEFINED == "undefined"

\* What the grouping loops make of [{}]: undefined < undefined is false, the
\* key is "undefined|undefined", and nothing throws.
malformedContacts(contactType) ==
    << [ id1 |-> UNDEFINED, id2 |-> UNDEFINED,
         timestamps |-> <<UNDEFINED>>,
         points |-> << [ timestamp |-> UNDEFINED, lng |-> UNDEFINED, lat |-> UNDEFINED,
                         contact_type |-> contactType ] >>,
         contact_type |-> contactType,
         through |-> UNDEFINED,
         timePeriods |-> <<[start |-> UNDEFINED, end |-> UNDEFINED]>> ] >>

\* Math.min(Infinity, undefined) is NaN, which is not Infinity: no default box.
NaNBounds == [kind |-> "NaN"]

\* What the fetch in loadDataByTimestamp leaves in the loader and the cache.
loadFetched(rd, cs, bs, mc, now, timestamp, outcome, responseData) ==
    IF outcome = "badShape"
    THEN LET cacheData == [rawData |-> MalformedList,
                           contacts |-> malformedContacts("direct"),
                           bounds |-> NaNBounds]
         IN [ rawData |-> MalformedList, contacts |-> malformedContacts("direct"),
              bounds |-> NaNBounds,
              memoryCache |-> set(mc, now, "contacts", ToString(timestamp), cacheData, <<>>) ]
    ELSE IF outcome = "ok"
    THEN LET pc == processContacts(responseData)
             cacheData == [rawData |-> responseData, contacts |-> pc.contacts,
                           bounds |-> pc.bounds]
         IN [ rawData |-> responseData, contacts |-> pc.contacts, bounds |-> pc.bounds,
              memoryCache |-> set(mc, now, "contacts", ToString(timestamp), cacheData, <<>>) ]
    ELSE IF outcome = "badBody"
    THEN \* rawData is the error object; processContacts resets the bounds and
         \* throws at its first loop
         [rawData |-> ErrorObject, contacts |-> cs, bounds |-> InfiniteBounds, memoryCache |-> mc]
    ELSE [rawData |-> rd, contacts |-> cs, bounds |-> bs, memoryCache |-> mc]

\* The entry preloadDataByTimestamp stores for a parsed 2xx body.
preloadEntry(tempRawData) ==
    [ rawData |-> tempRawData,
      contacts |-> processContactData(tempRawData, "direct"),
      bounds |-> boundsOf(tempRawData) ]

\* Mutation of preloadFetched: the preloaded data also becomes the current data.
preloadFetchedAsCurrent(rd, cs, bs, dc, timestamp, outcome, responseData) ==
    IF outcome = "ok"
    THEN [ rawData |-> responseData,
           contacts |-> preloadEntry(responseData).contacts,
           bounds |-> preloadEntry(responseData).bounds,
           dataCache |-> [t \in DOMAIN dc \cup {timestamp} |->
                            IF t = timestamp THEN preloadEntry(responseData) ELSE dc[t]] ]
    ELSE [rawData |-> rd, contacts |-> cs, bounds |-> bs, dataCache |-> dc]

\* What the fetch in preloadDataByTimestamp leaves in the loader: a parsed 2xx
\* body is stored in dataCache, any other outcome is logged and dropped.
preloadFetched(rd, cs, bs, dc, timestamp, outcome, responseData) ==
    IF outcome = "badShape"
    THEN [ rawData |-> rd, contacts |-> cs, bounds |-> bs,
           dataCache |-> [t \in DOMAIN dc \cup {timestamp} |->
                            IF t = timestamp
                            THEN [ rawData |-> MalformedList,
                                   contacts |-> malformedContacts("direct"),
                                   bounds |-> NaNBounds ]
                            ELSE dc[t]] ]
    ELSE IF outcome = "ok"
    THEN [ rawData |-> rd, contacts |-> cs, bounds |-> bs,
           dataCache |-> [t \in DOMAIN dc \cup {timestamp} |->
                            IF t = timestamp THEN preloadEntry(responseData) ELSE dc[t]] ]
    ELSE [rawData |-> rd, contacts |-> cs, bounds |-> bs, dataCache |-> dc]

\* The requests a then-callback for timestamp starts: the previous timestamp's
\* records for the new-contacts list, and the preload of the next timestamp.
previousRequest(timestamps, timestamp, cs) ==
    IF indexOf(timestamps, timestamp) > 1
    THEN {[ kind |-> "previous",
            timestamp |-> timestamps[indexOf(timestamps, timestamp) - 1],
            endpoint |-> "http://127.0.0.1:5000",
            currentTimestamp |-> timestamp,
            contactsAtCall |-> cs,
            currentContactsData |-> currentContactsDataOf(cs, timestamp) ]}
    ELSE {}

preloadRequest(timestamps, timestamp, dc) ==
    IF /\ indexOf(timestamps, timestamp) < Len(timestamps)
       /\ timestamps[indexOf(timestamps, timestamp) + 1] \notin DOMAIN dc
    THEN {[ kind |-> "preload", endpoint |-> "apiBaseUrl",
            timestamp |-> timestamps[indexOf(timestamps, timestamp) + 1] ]}
    ELSE {}

\* The callback setTimestamp chains on loadDataByTimestamp(timestamp), run with
\* cur as mapAnimation.currentTimestamp, cs as dataLoader.contacts, dc as
\* dataCache and reqs as the other fetches in flight.
ThenCallback(cur, timestamp, cs, dc, reqs) ==
    IF isStale(cur, timestamp)
    THEN /\ requests' = reqs
         /\ UNCHANGED <<drawnMap, totalContacts, sliderValue, allNewContacts, lastCalc>>
    ELSE /\ drawnMap' = <<[timestamp |-> timestamp, contacts |-> cs]>>
         /\ totalContacts' = <<Len(cs)>>
         /\ IF indexOf(allTimestamps, timestamp) > 1
            THEN UNCHANGED <<allNewContacts, lastCalc>>
            ELSE /\ allNewContacts' = currentContactsDataOf(cs, timestamp)
                 /\ lastCalc' = [ previous |-> "none", timestamp |-> timestamp,
                                  contactsAtCall |-> cs ]
         /\ sliderValue' = indexOf(allTimestamps, timestamp) - 1
         /\ requests' = reqs (+) SetToBag(previousRequest(allTimestamps, timestamp, cs))
                             (+) SetToBag(preloadRequest(allTimestamps, timestamp, dc))

\* setTimestamp(timestamp) supersedes the loads in flight for other timestamps:
\* the bag of requests with those loads marked.
supersede(r, timestamp) ==
    IF r.kind = "load" /\ r.timestamp # timestamp
    THEN [r EXCEPT !.superseded = TRUE]
    ELSE r

superseding(reqs, timestamp) ==
    LET marked == {supersede(r, timestamp) : r \in BagToSet(reqs)}
        unmarked(x) == IF x.kind = "load" THEN [x EXCEPT !.superseded = FALSE] ELSE x
    IN [ x \in marked |->
           (IF supersede(x, timestamp) = x THEN CopiesIn(x, reqs) ELSE 0)
           + (IF x.kind = "load" /\ x.superseded /\ x.timestamp # timestamp
              THEN CopiesIn(unmarked(x), reqs) ELSE 0) ]

\* The ways a fetch may end in the current state.
OutcomesNow == IF failures < MaxFailures THEN Outcomes ELSE {"ok"}

Failed(outcome) == IF outcome = "ok" THEN 0 ELSE 1

\* ------------------------------------------------------------------------
\* Spec: the page after construction, App.init, then setTimestamp calls and
\* the resolutions of the fetches in flight, in any order
\* ------------------------------------------------------------------------

\* /api/timestamps of the modelled service: the timestamps need not be
\* consecutive numbers.
ServiceTimestamps == <<1, 3>>

ServiceRecord(id1, id2, timestamp) ==
    [ id1 |-> id1, id2 |-> id2, timestamp |-> timestamp, lat |-> 1, lng |-> 1,
      contact_type |-> "direct", through |-> <<>> ]

\* /api/contacts/<timestamp> of the modelled services: pairs that stay, leave
\* and arrive; ids in either order; a pair reported twice; empty answers.
ServiceDataSets ==
    { 1 :> <<ServiceRecord(1, 2, 1), ServiceRecord(3, 4, 1)>> @@
      3 :> <<ServiceRecord(1, 2, 3), ServiceRecord(5, 6, 3)>>,
      1 :> <<ServiceRecord(2, 1, 1)>> @@
      3 :> <<ServiceRecord(1, 2, 3), ServiceRecord(2, 3, 3), ServiceRecord(2, 1, 3)>>,
      1 :> <<>> @@
      3 :> <<ServiceRecord(2, 1, 3)>>,
      1 :> <<ServiceRecord(1, 2, 1)>> @@
      3 :> <<>> }

Init ==
    /\ CacheConstructed
    /\ LoaderConstructed
    /\ VisConstructed
    /\ AggIdle
    /\ phase = "constructed"
    /\ requests = EmptyBag
    /\ svc \in ServiceDataSets
    /\ calls = 0
    /\ failures = 0
    /\ lastStep = NoStep
    /\ served = {}
    /\ RepoConstructed
    /\ UiConstructed

\* App.init: initData (timestamps, the first timestamp's load, the preload of
\* the second), then initMapAnimation, the first draw and the contact count.
AppInit ==
    /\ phase = "constructed"
    /\ phase' = "running"
    /\ \E timestampsOutcome \in OutcomesNow \ {"badBody"}, outcome \in OutcomesNow :
         IF timestampsOutcome = "ok"
         THEN LET first == ServiceTimestamps[1]
                  mc == set(memoryCache, clock, "timestamps", "all", ServiceTimestamps, <<>>)
                  f == loadFetched(rawData, contacts, bounds, mc, clock, first, outcome,
                                   svc[first])
              IN /\ allTimestamps' = ServiceTimestamps
                 /\ rawData' = f.rawData
                 /\ contacts' = f.contacts
                 /\ bounds' = f.bounds
                 /\ memoryCache' = f.memoryCache
                 /\ requests' = IF Len(ServiceTimestamps) > 1
                                THEN SetToBag({[ kind |-> "preload",
                                                 endpoint |-> "apiBaseUrl",
                                                 timestamp |-> ServiceTimestamps[2] ]})
                                ELSE EmptyBag
                 /\ failures' = failures + Failed(outcome)
                 /\ currentTimestamp' = <<first>>
                 /\ sliderValue' = 0
                 /\ drawnMap' = <<[timestamp |-> first, contacts |-> f.contacts]>>
                 /\ totalContacts' = <<Len(f.contacts)>>
                 /\ lastStep' = [kind |-> "init", timestamps |-> "ok", outcome |-> outcome]
                 /\ served' = IF outcome = "ok" THEN {first} ELSE {}
         ELSE /\ totalContacts' = <<0>>
              /\ failures' = failures + 1
              /\ lastStep' = [kind |-> "init", timestamps |-> timestampsOutcome,
                              outcome |-> "none"]
              /\ UNCHANGED <<allTimestamps, rawData, contacts, bounds, memoryCache, requests,
                             currentTimestamp, sliderValue, drawnMap, served>>
    /\ UNCHANGED <<dataCache, allNewContacts, lastCalc, svc, calls>>
    /\ UNCHANGED <<clock, ticks, cacheOp, cacheRet, written, cacheOps, aggVars, repoVars, uiVars>>

\* setTimestamp(timestamp) up to the point where it waits for the network: the
\* current timestamp changes at once; a hit in dataCache or in the cache manager
\* runs the then-callback in the same turn; otherwise a load is started.
setTimestamp(timestamp) ==
    /\ phase = "running"
    /\ calls < MaxCalls
    /\ timestamp \in SeqRange(allTimestamps)
    /\ LET hit == get(memoryCache, clock, "contacts", ToString(timestamp))
           reqs == superseding(requests, timestamp)
       IN /\ calls' = calls + 1
          /\ currentTimestamp' = <<timestamp>>
          /\ lastStep' = [ kind |-> "setTimestamp", timestamp |-> timestamp,
                           path |-> IF timestamp \in DOMAIN dataCache THEN "dataCache"
                                    ELSE IF hit.found THEN "cacheManager"
                                    ELSE "network" ]
          /\ served' = IF timestamp \in DOMAIN dataCache \/ hit.found
                       THEN served \cup {timestamp}
                       ELSE served
          /\ IF timestamp \in DOMAIN dataCache
             THEN LET cached == dataCache[timestamp]
                      dc == [t \in DOMAIN dataCache \ {timestamp} |-> dataCache[t]]
                  IN /\ rawData' = cached.rawData
                     /\ contacts' = cached.contacts
                     /\ bounds' = cached.bounds
                     /\ dataCache' = dc
                     /\ UNCHANGED memoryCache
                     /\ ThenCallback(<<timestamp>>, timestamp, cached.contacts, dc, reqs)
             ELSE IF hit.found
             THEN /\ rawData' = hit.data.rawData
                  /\ contacts' = hit.data.contacts
                  /\ bounds' = hit.data.bounds
                  /\ memoryCache' = hit.cache
                  /\ UNCHANGED dataCache
                  /\ ThenCallback(<<timestamp>>, timestamp, hit.data.contacts, dataCache,
                                  reqs)
             ELSE /\ memoryCache' = hit.cache
                  /\ requests' = reqs (+)
                                   SetToBag({[ kind |-> "load", endpoint |-> "apiBaseUrl",
                                               timestamp |-> timestamp,
                                               superseded |-> FALSE ]})
                  /\ UNCHANGED <<rawData, contacts, bounds, dataCache, drawnMap,
                                 totalContacts, sliderValue, allNewContacts, lastCalc>>
    /\ UNCHANGED <<allTimestamps, phase, svc, failures>>
    /\ UNCHANGED <<clock, ticks, cacheOp, cacheRet, written, cacheOps, aggVars, repoVars>>

\* setTimestamp called from outside the timeline's own controls.
SetTimestamp(timestamp) ==
    /\ setTimestamp(timestamp)
    /\ UNCHANGED uiVars

\* The fetch of a load ends; loadDataByTimestamp finishes and the then-callback
\* of the setTimestamp call that started it runs.
LoadResolve ==
    \E r \in BagToSet(requests), outcome \in OutcomesNow :
        /\ r.kind = "load"
        /\ LET f == loadFetched(rawData, contacts, bounds, memoryCache, clock,
                                r.timestamp, outcome, svc[r.timestamp])
           IN /\ rawData' = f.rawData
              /\ contacts' = f.contacts
              /\ bounds' = f.bounds
              /\ memoryCache' = f.memoryCache
              /\ ThenCallback(currentTimestamp, r.timestamp, f.contacts, dataCache,
                              requests (-) SetToBag({r}))
        /\ failures' = failures + Failed(outcome)
        /\ served' = IF outcome = "ok" THEN served \cup {r.timestamp} ELSE served
        /\ lastStep' = [ kind |-> "loadResolved", timestamp |-> r.timestamp,
                         outcome |-> outcome, superseded |-> r.superseded,
                         drawn |-> ~isStale(currentTimestamp, r.timestamp) ]
        /\ UNCHANGED <<allTimestamps, dataCache, currentTimestamp, phase, svc, calls>>
        /\ UNCHANGED <<clock, ticks, cacheOp, cacheRet, written, cacheOps, aggVars, repoVars, uiVars>>

\* The fetch of a preload ends: a parsed 2xx body is stored in dataCache, any
\* other outcome is logged and dropped.
PreloadResolve ==
    \E r \in BagToSet(requests), outcome \in OutcomesNow :
        /\ r.kind = "preload"
        /\ LET f == preloadFetched(rawData, contacts, bounds, dataCache, r.timestamp,
                                   outcome, svc[r.timestamp])
           IN /\ rawData' = f.rawData
              /\ contacts' = f.contacts
              /\ bounds' = f.bounds
              /\ dataCache' = f.dataCache
        /\ requests' = requests (-) SetToBag({r})
        /\ failures' = failures + Failed(outcome)
        /\ lastStep' = [ kind |-> "preloadResolved", timestamp |-> r.timestamp,
                         outcome |-> outcome ]
        /\ UNCHANGED <<allTimestamps, visVars, phase, svc, calls, served, cacheVars,
                       aggVars, repoVars, uiVars>>

\* The fetch of the previous timestamp's records ends and
\* calculateAndRenderNewContacts stores its list.
PreviousResolve ==
    \E r \in BagToSet(requests), outcome \in OutcomesNow :
        /\ r.kind = "previous"
        /\ allNewContacts' = IF outcome = "ok"
                             THEN newContactsOf(r.currentContactsData, svc[r.timestamp])
                             ELSE newContactsOnFailure(r.currentContactsData)
        /\ lastCalc' = [ previous |-> outcome, timestamp |-> r.currentTimestamp,
                         contactsAtCall |-> r.contactsAtCall ]
        /\ requests' = requests (-) SetToBag({r})
        /\ failures' = failures + Failed(outcome)
        /\ lastStep' = [ kind |-> "previousResolved", timestamp |-> r.timestamp,
                         outcome |-> outcome ]
        /\ UNCHANGED <<loaderVars, currentTimestamp, drawnMap, totalContacts, sliderValue,
                       phase, svc, calls, served, cacheVars, aggVars, repoVars, uiVars>>

Next ==
    \/ AppInit
    \/ \E timestamp \in SeqRange(ServiceTimestamps) : SetTimestamp(timestamp)
    \/ LoadResolve
    \/ PreloadResolve
    \/ PreviousResolve

Spec == Init /\ [][Next]_vars


\* ------------------------------------------------------------------------
\* Properties of Spec
\* ------------------------------------------------------------------------

\* A step that draws nothing, counts nothing, computes no new-contacts list,
\* leaves the slider alone and starts no fetch.
NoDisplayEffect ==
    /\ UNCHANGED <<drawnMap, totalContacts, sliderValue, allNewContacts, lastCalc>>
    /\ requests' \sqsubseteq requests

\* C2, as stated: once setTimestamp(A) has been followed by setTimestamp(B),
\* B # A, before A's load resolved, the resolution of A's load draws no map,
\* updates no count, computes no new-contacts list, does not move the slider
\* and starts no prefetch.
C2_SupersededLoadDiscarded ==
    [][ (lastStep'.kind = "loadResolved" /\ lastStep'.superseded)
            => (~lastStep'.drawn /\ NoDisplayEffect) ]_vars

\* C2, amended: the resolution of a load has none of these effects whenever its
\* timestamp is not the current one at that moment; a superseded load whose
\* timestamp has been made current again by a later setTimestamp is treated as
\* current and drawn.
C2_StaleLoadDiscarded ==
    [][ lastStep'.kind = "loadResolved" =>
          /\ currentTimestamp # <<lastStep'.timestamp>>
                => (~lastStep'.drawn /\ NoDisplayEffect)
          /\ (lastStep'.superseded /\ currentTimestamp = <<lastStep'.timestamp>>)
                => /\ lastStep'.drawn
                   /\ drawnMap' = <<[timestamp |-> lastStep'.timestamp,
                                     contacts |-> contacts']>> ]_vars

\* A's load, superseded by setTimestamp(B), has resolved while B is current.
C2_Witness ==
    /\ lastStep.kind = "loadResolved"
    /\ lastStep.superseded
    /\ ~lastStep.drawn
    /\ currentTimestamp # <<lastStep.timestamp>>
    /\ currentTimestamp # <<>>

CanonicalPair(id1, id2) ==
    <<IF id1 <= id2 THEN id1 ELSE id2, IF id1 <= id2 THEN id2 ELSE id1>>

\* The canonical pairs of the contacts cs that have a point at timestamp.
PairsPresentAt(cs, timestamp) ==
    { CanonicalPair(cs[i].id1, cs[i].id2) :
        i \in {j \in 1..Len(cs) :
                 \E k \in 1..Len(cs[j].points) : cs[j].points[k].timestamp = timestamp} }

\* The canonical pairs of a list of records.
PairsOfRecords(data) ==
    {CanonicalPair(data[i].id1, data[i].id2) : i \in 1..Len(data)}

\* The pairs of a new-contacts list, in order.
ListedPairs(list) == [i \in 1..Len(list) |-> <<list[i].id1, list[i].id2>>]

NoPairTwice(list) ==
    \A i, j \in 1..Len(list) : ListedPairs(list)[i] = ListedPairs(list)[j] => i = j

\* The timestamp before lastCalc.timestamp in the known sequence.
PredecessorOfCalc ==
    allTimestamps[(CHOOSE i \in 1..Len(allTimestamps) :
                       allTimestamps[i] = lastCalc.timestamp) - 1]

\* C3: a new-contacts computation for ts whose predecessor's records were
\* fetched lists exactly the canonical pairs with a point at ts whose key does
\* not occur among the predecessor's records, each once; for the first
\* timestamp it lists every pair present at ts.  Where the loader holds the
\* service's data for ts, these are the service's pairs at ts.
C3_DeltaCorrect ==
    lastCalc.previous \in {"ok", "none"} =>
        LET ts == lastCalc.timestamp
            present == PairsPresentAt(lastCalc.contactsAtCall, ts)
            before == IF lastCalc.previous = "none" THEN {}
                      ELSE PairsOfRecords(svc[PredecessorOfCalc])
        IN /\ (lastCalc.previous = "none") <=> (ts = allTimestamps[1])
           /\ SeqRange(ListedPairs(allNewContacts)) = present \ before
           /\ NoPairTwice(allNewContacts)
           /\ lastCalc.contactsAtCall = processContacts(svc[ts]).contacts
                 => SeqRange(ListedPairs(allNewContacts)) = PairsOfRecords(svc[ts]) \ before

\* The predecessor's records were fetched; of the pairs present at ts some
\* were there before and some were not.
C3_Witness ==
    /\ lastCalc.previous = "ok"
    /\ LET present == PairsPresentAt(lastCalc.contactsAtCall, lastCalc.timestamp)
           before == PairsOfRecords(svc[PredecessorOfCalc])
       IN /\ present \cap before # {}
          /\ present \ before # {}
          /\ SeqRange(ListedPairs(allNewContacts)) = present \ before

\* The first timestamp: every pair present is listed.
C3_WitnessFirst ==
    /\ lastCalc.previous = "none"
    /\ allNewContacts # <<>>

\* C4: when the fetch of the predecessor's records fails (rejected fetch or
\* non-OK status), the computation completes and lists every pair present at
\* ts, each once.
C4_DeltaDegrades ==
    lastCalc.previous \in {"httpError", "networkError"} =>
        /\ SeqRange(ListedPairs(allNewContacts))
               = PairsPresentAt(lastCalc.contactsAtCall, lastCalc.timestamp)
        /\ NoPairTwice(allNewContacts)
        /\ \A i \in 1..Len(allNewContacts) :
               allNewContacts[i].timestamp = lastCalc.timestamp

\* The predecessor's fetch failed and a pair that was there before is listed.
C4_Witness ==
    /\ lastCalc.previous \in {"httpError", "networkError"}
    /\ SeqRange(ListedPairs(allNewContacts)) \cap PairsOfRecords(svc[PredecessorOfCalc]) # {}


\* C13: once loadDataByTimestamp(ts) has loaded the contacts of ts, by whatever
\* path, a later loadDataByTimestamp(ts) within the contacts TTL and with no
\* clear in between is served from a cache and sends no request.  (The clock
\* of Spec stands still and Spec clears nothing.)
C13_LoadedStaysCached ==
    [][ (lastStep'.kind = "setTimestamp" /\ lastStep'.timestamp \in served)
            => /\ lastStep'.path # "network"
               /\ \A r \in BagToSet(requests') :
                      (r.kind = "load" /\ r.timestamp = lastStep'.timestamp)
                          => CopiesIn(r, requests') <= CopiesIn(r, requests) ]_vars


\* An unexpired contacts entry of the cache manager for timestamp.
ContactsEntryLive(mc, now, timestamp) ==
    /\ getCacheKey("contacts", ToString(timestamp)) \in DOMAIN mc
    /\ now - mc[getCacheKey("contacts", ToString(timestamp))].timestamp
           <= mc[getCacheKey("contacts", ToString(timestamp))].ttl

PreloadOf(timestamp) ==
    [kind |-> "preload", endpoint |-> "apiBaseUrl", timestamp |-> timestamp]

\* C16: preloadDataByTimestamp(ts) sends no request when the contacts of ts
\* are already cached, in the look-ahead cache or as an unexpired contacts
\* entry of the cache manager: no step starts a preload of such a ts.
C16_PrefetchOfCachedIsNoOp ==
    [][ \A ts \in SeqRange(ServiceTimestamps) :
            (ts \in DOMAIN dataCache' \/ ContactsEntryLive(memoryCache', clock', ts))
                => CopiesIn(PreloadOf(ts), requests') <= CopiesIn(PreloadOf(ts), requests)
      ]_vars


\* C17: the resolution of a preload of ts, successful or not and wherever it
\* falls among the display loads, leaves rawData, contacts, bounds, the current
\* timestamp, what is drawn and every cache entry for another key as they
\* were; all it may do is store the look-ahead entry for ts.
C17_PrefetchFrame ==
    [][ lastStep'.kind = "preloadResolved" =>
          /\ UNCHANGED <<rawData, contacts, bounds, currentTimestamp, memoryCache,
                         drawnMap, totalContacts, sliderValue, allNewContacts>>
          /\ DOMAIN dataCache' \subseteq DOMAIN dataCache \cup {lastStep'.timestamp}
          /\ \A t \in DOMAIN dataCache \ {lastStep'.timestamp} :
                 t \in DOMAIN dataCache' /\ dataCache'[t] = dataCache[t]
          /\ lastStep'.outcome # "ok" => dataCache' = dataCache ]_vars

\* A preload has stored its entry while a display load for another timestamp
\* was in flight and the cache manager held entries.
C17_Witness ==
    /\ lastStep.kind = "preloadResolved"
    /\ lastStep.outcome = "ok"
    /\ lastStep.timestamp \in DOMAIN dataCache
    /\ currentTimestamp # <<lastStep.timestamp>>
    /\ DOMAIN memoryCache # {}
    /\ \E r \in BagToSet(requests) : r.kind = "load"

\* ---------------------------------------------------------------------------
\* The DataLoader's reads, one call at a time (SpecRepo)
\* ---------------------------------------------------------------------------

\* The data service of SpecRepo.  Timestamp 3 and user 8 have no contacts.
RepoServiceData == 1 :> <<ServiceRecord(2, 1, 1)>> @@ 3 :> <<>>

RepoUserIds == {7, 8}

ServiceUserContacts(userId) ==
    IF userId = 7 THEN <<ServiceRecord(7, 2, 1)>> ELSE <<>>

ServiceSecondaryContacts(userId) ==
    IF userId = 7
    THEN << [ id1 |-> 9, id2 |-> 7, timestamp |-> 1, lat |-> 1, lng |-> 1,
              contact_type |-> NULL, through |-> <<2>> ] >>
    ELSE <<>>

TrajectoryIds == {5, 9}

\* /api/trajectory/<a>/<b>: the points of the pair, none for a pair that never met.
ServiceTrajectory(a, b) ==
    IF a = 5 /\ b = 9
    THEN << [timestamp |-> 1, lat |-> 1, lng |-> 1], [timestamp |-> 2, lat |-> 2, lng |-> 1] >>
    ELSE <<>>

\* /api/bounds, in tenths of a degree.
ServiceBounds == [minLat |-> 390, maxLat |-> 410, minLng |-> 1160, maxLng |-> 1170]

\* The rectangle getBoundsInfo falls back to, in tenths of a degree.
DefaultBoundsInfo ==
    [ minLat |-> 399, maxLat |-> 401, minLng |-> 1163, maxLng |-> 1165,
      centerLat |-> 400, centerLng |-> 1164 ]

\* x || d on numbers
orDefault(x, d) == IF x = 0 THEN d ELSE x

\* What a call left behind: the endpoints it requested, how its fetch ended,
\* whether it showed an alert, and whether it raised to its caller.  Every read
\* catches what its fetch throws and returns, so none raises.
RepoCall(op, args, outcome, requested, alerted) ==
    [ op |-> op, args |-> args,
      outcome |-> IF requested = {} THEN "none" ELSE outcome,
      requested |-> requested, raised |-> FALSE, alerted |-> alerted ]

ContactsEndpoint(timestamp) == "/api/contacts/" \o ToString(timestamp)

\* loadDataByTimestamp(timestamp), the whole call.
loadDataByTimestamp(rd, cs, bs, dc, mc, now, timestamp, outcome, responseData) ==
    IF timestamp \in DOMAIN dc
    THEN [ rawData |-> dc[timestamp].rawData, contacts |-> dc[timestamp].contacts,
           bounds |-> dc[timestamp].bounds,
           dataCache |-> [t \in DOMAIN dc \ {timestamp} |-> dc[t]],
           memoryCache |-> mc, ret |-> TRUE, requested |-> {}, alerted |-> FALSE ]
    ELSE LET hit == get(mc, now, "contacts", ToString(timestamp)) IN
         IF hit.found
         THEN [ rawData |-> hit.data.rawData, contacts |-> hit.data.contacts,
                bounds |-> hit.data.bounds, dataCache |-> dc,
                memoryCache |-> hit.cache, ret |-> TRUE, requested |-> {},
                alerted |-> FALSE ]
         ELSE LET f == loadFetched(rd, cs, bs, hit.cache, now, timestamp, outcome,
                                   responseData)
                  loaded == outcome \in {"ok", "badShape"} IN
              [ rawData |-> f.rawData, contacts |-> f.contacts, bounds |-> f.bounds,
                dataCache |-> dc, memoryCache |-> f.memoryCache, ret |-> loaded,
                requested |-> {ContactsEndpoint(timestamp)}, alerted |-> ~loaded ]

\* preloadDataByTimestamp(timestamp), the whole call.
preloadDataByTimestamp(rd, cs, bs, dc, timestamp, outcome, responseData) ==
    IF timestamp \in DOMAIN dc
    THEN [ rawData |-> rd, contacts |-> cs, bounds |-> bs, dataCache |-> dc,
           requested |-> {} ]
    ELSE LET f == preloadFetched(rd, cs, bs, dc, timestamp, outcome, responseData) IN
         [ rawData |-> f.rawData, contacts |-> f.contacts, bounds |-> f.bounds,
           dataCache |-> f.dataCache, requested |-> {ContactsEndpoint(timestamp)} ]

\* Mutation of queryContacts: the cache is written but never consulted.
queryContactsAlwaysFetch(uc, mc, now, kind, endpoint, contactType, userId, outcome, responseData) ==
    LET key == kind \o "_" \o ToString(userId) IN
    IF outcome = "ok"
    THEN LET contactsOf == processContactData(responseData, contactType) IN
         [ userContacts |-> [u \in DOMAIN uc \cup {userId} |->
                                 IF u = userId THEN contactsOf ELSE uc[u]],
           memoryCache |-> set(mc, now, "userContacts", key, contactsOf, <<>>),
           ret |-> contactsOf, requested |-> {endpoint}, alerted |-> FALSE ]
    ELSE [ userContacts |-> uc, memoryCache |-> mc, ret |-> <<>>,
           requested |-> {endpoint}, alerted |-> TRUE ]

\* The shared body of queryUserContacts and queryUserSecondaryContacts: the
\* cache key prefix, the endpoint and the fallback type are what differ.
queryContacts(uc, mc, now, kind, endpoint, contactType, userId, outcome, responseData) ==
    LET key == kind \o "_" \o ToString(userId)
        hit == get(mc, now, "userContacts", key) IN
    IF hit.found
    THEN [ userContacts |-> [u \in DOMAIN uc \cup {userId} |->
                                 IF u = userId THEN hit.data ELSE uc[u]],
           memoryCache |-> hit.cache, ret |-> hit.data, requested |-> {},
           alerted |-> FALSE ]
    ELSE IF outcome \in {"ok", "badShape"}
    THEN LET contactsOf == IF outcome = "ok"
                           THEN processContactData(responseData, contactType)
                           ELSE malformedContacts(contactType) IN
         [ userContacts |-> [u \in DOMAIN uc \cup {userId} |->
                                 IF u = userId THEN contactsOf ELSE uc[u]],
           memoryCache |-> set(hit.cache, now, "userContacts", key, contactsOf, <<>>),
           ret |-> contactsOf, requested |-> {endpoint}, alerted |-> FALSE ]
    ELSE [ userContacts |-> uc, memoryCache |-> hit.cache, ret |-> <<>>,
           requested |-> {endpoint}, alerted |-> TRUE ]

UserContactsEndpoint(userId) == "/api/user/" \o ToString(userId) \o "/contacts"

UserSecondaryEndpoint(userId) ==
    "/api/user/" \o ToString(userId) \o "/secondary-contacts"

queryUserContacts(uc, mc, now, userId, outcome, responseData) ==
    queryContacts(uc, mc, now, "direct", UserContactsEndpoint(userId), "direct",
                  userId, outcome, responseData)

queryUserSecondaryContacts(uc, mc, now, userId, outcome, responseData) ==
    queryContacts(uc, mc, now, "secondary", UserSecondaryEndpoint(userId), "indirect",
                  userId, outcome, responseData)

\* Mutation of trajectoryPair: the ids as the caller gave them.
trajectoryPairAsGiven(id1, id2) == <<id1, id2>>

\* const a = Math.min(id1, id2); const b = Math.max(id1, id2)
trajectoryPair(id1, id2) == <<Min({id1, id2}), Max({id1, id2})>>

trajectoryKey(p) == ToString(p[1]) \o "_" \o ToString(p[2])

TrajectoryEndpoint(p) == "/api/trajectory/" \o ToString(p[1]) \o "/" \o ToString(p[2])

\* getContactTrajectory(id1, id2), the whole call.  The parsed body is cached
\* and returned as it came.
getContactTrajectory(mc, now, id1, id2, outcome, responseData) ==
    LET p == trajectoryPair(id1, id2)
        hit == get(mc, now, "trajectory", trajectoryKey(p)) IN
    IF hit.found
    THEN [memoryCache |-> hit.cache, ret |-> hit.data, requested |-> {}, alerted |-> FALSE]
    ELSE IF outcome \in {"ok", "badShape"}
    THEN LET data == IF outcome = "ok" THEN responseData ELSE MalformedList IN
         [ memoryCache |-> set(hit.cache, now, "trajectory", trajectoryKey(p), data, <<>>),
           ret |-> data, requested |-> {TrajectoryEndpoint(p)}, alerted |-> FALSE ]
    ELSE [ memoryCache |-> hit.cache, ret |-> <<>>,
           requested |-> {TrajectoryEndpoint(p)}, alerted |-> TRUE ]

\* The boundsInfo object built from a parsed body.
boundsInfoOf(b) ==
    [ minLat |-> orDefault(b.minLat, DefaultBoundsInfo.minLat),
      maxLat |-> orDefault(b.maxLat, DefaultBoundsInfo.maxLat),
      minLng |-> orDefault(b.minLng, DefaultBoundsInfo.minLng),
      maxLng |-> orDefault(b.maxLng, DefaultBoundsInfo.maxLng),
      centerLat |-> orDefault((b.minLat + b.maxLat) \div 2, DefaultBoundsInfo.centerLat),
      centerLng |-> orDefault((b.minLng + b.maxLng) \div 2, DefaultBoundsInfo.centerLng) ]

\* getBoundsInfo(), the whole call.  A body without the four fields reads
\* undefined four times and NaN twice: every || takes its default.
getBoundsInfo(mc, now, outcome, responseData) ==
    LET hit == get(mc, now, "bounds", "all") IN
    IF hit.found
    THEN [memoryCache |-> hit.cache, ret |-> hit.data, requested |-> {}, alerted |-> FALSE]
    ELSE IF outcome \in {"ok", "badShape"}
    THEN LET boundsInfo == IF outcome = "ok" THEN boundsInfoOf(responseData)
                           ELSE DefaultBoundsInfo IN
         [ memoryCache |-> set(hit.cache, now, "bounds", "all", boundsInfo, <<>>),
           ret |-> boundsInfo, requested |-> {"/api/bounds"}, alerted |-> FALSE ]
    ELSE [ memoryCache |-> hit.cache, ret |-> DefaultBoundsInfo,
           requested |-> {"/api/bounds"}, alerted |-> FALSE ]

\* The timestamp list of initData: from the cache, or fetched and cached.
initTimestamps(at, mc, now, outcome, responseData) ==
    LET hit == get(mc, now, "timestamps", "all") IN
    IF hit.found
    THEN [allTimestamps |-> hit.data, memoryCache |-> hit.cache, requested |-> {},
          thrown |-> FALSE]
    ELSE IF outcome = "ok"
    THEN [ allTimestamps |-> responseData,
           memoryCache |-> set(hit.cache, now, "timestamps", "all", responseData, <<>>),
           requested |-> {"/api/timestamps"}, thrown |-> FALSE ]
    ELSE [ allTimestamps |-> at, memoryCache |-> hit.cache,
           requested |-> {"/api/timestamps"}, thrown |-> TRUE ]

\* The outcomes still possible for a fetch, and what a fetch costs of the
\* budget of failing fetches.
\* The fetch times of the look-ahead entries after a call made at now: an
\* entry that was there keeps its time, a new one was fetched now.
PreloadTimes(at, dc, now) ==
    [t \in DOMAIN dc |-> IF t \in DOMAIN at THEN at[t] ELSE now]

RepoOutcomesNow == IF failures < MaxFailures THEN RepoOutcomes ELSE {"ok"}

RepoFailed(requested, outcome) == IF requested = {} \/ outcome = "ok" THEN 0 ELSE 1

InitRepo ==
    /\ CacheConstructed
    /\ LoaderConstructed
    /\ VisConstructed
    /\ NetIdle
    /\ AggIdle
    /\ RepoConstructed
    /\ UiConstructed

RepoLoad ==
    /\ repoOps < MaxRepoOps
    /\ \E timestamp \in SeqRange(ServiceTimestamps), outcome \in RepoOutcomesNow :
         LET r == loadDataByTimestamp(rawData, contacts, bounds, dataCache, memoryCache,
                                      clock, timestamp, outcome,
                                      RepoServiceData[timestamp]) IN
         /\ rawData' = r.rawData
         /\ contacts' = r.contacts
         /\ bounds' = r.bounds
         /\ dataCache' = r.dataCache
         /\ memoryCache' = r.memoryCache
         /\ repoOp' = RepoCall("loadDataByTimestamp", <<timestamp>>, outcome,
                               r.requested, r.alerted)
         /\ repoRet' = [value |-> r.ret]
         /\ failures' = failures + RepoFailed(r.requested, outcome)
    /\ repoOps' = repoOps + 1
    /\ preloadedAt' = PreloadTimes(preloadedAt, dataCache', clock)
    /\ UNCHANGED <<allTimestamps, userContacts, userSecondaryContacts>>
    /\ UNCHANGED <<clock, ticks, cacheOp, cacheRet, written, cacheOps>>
    /\ UNCHANGED <<visVars, aggVars, uiVars, phase, requests, svc, calls, lastStep, served>>

RepoPreload ==
    /\ repoOps < MaxRepoOps
    /\ \E timestamp \in SeqRange(ServiceTimestamps), outcome \in RepoOutcomesNow :
         LET r == preloadDataByTimestamp(rawData, contacts, bounds, dataCache,
                                         timestamp, outcome,
                                         RepoServiceData[timestamp]) IN
         /\ rawData' = r.rawData
         /\ contacts' = r.contacts
         /\ bounds' = r.bounds
         /\ dataCache' = r.dataCache
         /\ repoOp' = RepoCall("preloadDataByTimestamp", <<timestamp>>, outcome,
                               r.requested, FALSE)
         /\ repoRet' = [value |-> UNDEFINED]
         /\ failures' = failures + RepoFailed(r.requested, outcome)
    /\ repoOps' = repoOps + 1
    /\ preloadedAt' = PreloadTimes(preloadedAt, dataCache', clock)
    /\ UNCHANGED <<allTimestamps, userContacts, userSecondaryContacts>>
    /\ UNCHANGED <<memoryCache, clock, ticks, cacheOp, cacheRet, written, cacheOps>>
    /\ UNCHANGED <<visVars, aggVars, uiVars, phase, requests, svc, calls, lastStep, served>>

RepoQueryUserContacts ==
    /\ repoOps < MaxRepoOps
    /\ \E userId \in RepoUserIds, outcome \in RepoOutcomesNow :
         LET r == queryUserContacts(userContacts, memoryCache, clock, userId, outcome,
                                    ServiceUserContacts(userId)) IN
         /\ userContacts' = r.userContacts
         /\ memoryCache' = r.memoryCache
         /\ repoOp' = RepoCall("queryUserContacts", <<userId>>, outcome,
                               r.requested, r.alerted)
         /\ repoRet' = [value |-> r.ret]
         /\ failures' = failures + RepoFailed(r.requested, outcome)
    /\ repoOps' = repoOps + 1
    /\ UNCHANGED <<loaderVars, userSecondaryContacts, preloadedAt>>
    /\ UNCHANGED <<clock, ticks, cacheOp, cacheRet, written, cacheOps>>
    /\ UNCHANGED <<visVars, aggVars, uiVars, phase, requests, svc, calls, lastStep, served>>

RepoQueryUserSecondaryContacts ==
    /\ repoOps < MaxRepoOps
    /\ \E userId \in RepoUserIds, outcome \in RepoOutcomesNow :
         LET r == queryUserSecondaryContacts(userSecondaryContacts, memoryCache, clock,
                                             userId, outcome,
                                             ServiceSecondaryContacts(userId)) IN
         /\ userSecondaryContacts' = r.userContacts
         /\ memoryCache' = r.memoryCache
         /\ repoOp' = RepoCall("queryUserSecondaryContacts", <<userId>>, outcome,
                               r.requested, r.alerted)
         /\ repoRet' = [value |-> r.ret]
         /\ failures' = failures + RepoFailed(r.requested, outcome)
    /\ repoOps' = repoOps + 1
    /\ UNCHANGED <<loaderVars, userContacts, preloadedAt>>
    /\ UNCHANGED <<clock, ticks, cacheOp, cacheRet, written, cacheOps>>
    /\ UNCHANGED <<visVars, aggVars, uiVars, phase, requests, svc, calls, lastStep, served>>

RepoGetContactTrajectory ==
    /\ repoOps < MaxRepoOps
    /\ \E id1 \in TrajectoryIds, outcome \in RepoOutcomesNow :
       \E id2 \in TrajectoryIds \ {id1} :
         LET p == trajectoryPair(id1, id2)
             r == getContactTrajectory(memoryCache, clock, id1, id2, outcome,
                                       ServiceTrajectory(p[1], p[2])) IN
         /\ memoryCache' = r.memoryCache
         /\ repoOp' = RepoCall("getContactTrajectory", <<id1, id2>>, outcome,
                               r.requested, r.alerted)
         /\ repoRet' = [value |-> r.ret]
         /\ failures' = failures + RepoFailed(r.requested, outcome)
    /\ repoOps' = repoOps + 1
    /\ UNCHANGED <<loaderVars, userContacts, userSecondaryContacts, preloadedAt>>
    /\ UNCHANGED <<clock, ticks, cacheOp, cacheRet, written, cacheOps>>
    /\ UNCHANGED <<visVars, aggVars, uiVars, phase, requests, svc, calls, lastStep, served>>

RepoGetBoundsInfo ==
    /\ repoOps < MaxRepoOps
    /\ \E outcome \in RepoOutcomesNow :
         LET r == getBoundsInfo(memoryCache, clock, outcome, ServiceBounds) IN
         /\ memoryCache' = r.memoryCache
         /\ repoOp' = RepoCall("getBoundsInfo", <<>>, outcome, r.requested, r.alerted)
         /\ repoRet' = [value |-> r.ret]
         /\ failures' = failures + RepoFailed(r.requested, outcome)
    /\ repoOps' = repoOps + 1
    /\ UNCHANGED <<loaderVars, userContacts, userSecondaryContacts, preloadedAt>>
    /\ UNCHANGED <<clock, ticks, cacheOp, cacheRet, written, cacheOps>>
    /\ UNCHANGED <<visVars, aggVars, uiVars, phase, requests, svc, calls, lastStep, served>>

\* initData, the whole call: the timestamp list, the load of the first
\* timestamp, and the preload of the second run to its end.
RepoInitData ==
    /\ repoOps < MaxRepoOps
    /\ \E outcome \in RepoOutcomesNow \ {"badShape"} :
         LET t == initTimestamps(allTimestamps, memoryCache, clock, outcome,
                                 ServiceTimestamps) IN
         IF t.thrown
         THEN /\ memoryCache' = t.memoryCache
              /\ repoOp' = RepoCall("initData", <<>>, outcome, t.requested, TRUE)
              /\ repoRet' = [value |-> FALSE]
              /\ failures' = failures + 1
              /\ UNCHANGED loaderVars
         ELSE \E loadOutcome \in RepoOutcomesNow, preloadOutcome \in RepoOutcomesNow :
                LET first == t.allTimestamps[1]
                    second == t.allTimestamps[2]
                    l == loadDataByTimestamp(rawData, contacts, bounds, dataCache,
                                             t.memoryCache, clock, first, loadOutcome,
                                             RepoServiceData[first])
                    q == preloadDataByTimestamp(l.rawData, l.contacts, l.bounds,
                                                l.dataCache, second, preloadOutcome,
                                                RepoServiceData[second]) IN
                /\ allTimestamps' = t.allTimestamps
                /\ rawData' = q.rawData
                /\ contacts' = q.contacts
                /\ bounds' = q.bounds
                /\ dataCache' = q.dataCache
                /\ memoryCache' = l.memoryCache
                /\ repoOp' = [ RepoCall("initData", <<>>, outcome, t.requested, l.alerted)
                                 EXCEPT !.requested = t.requested \cup l.requested
                                                          \cup q.requested ]
                /\ repoRet' = [value |-> TRUE]
                /\ failures' = failures + RepoFailed(l.requested, loadOutcome)
                                        + RepoFailed(q.requested, preloadOutcome)
                /\ failures' <= MaxFailures
    /\ repoOps' = repoOps + 1
    /\ preloadedAt' = PreloadTimes(preloadedAt, dataCache', clock)
    /\ UNCHANGED <<userContacts, userSecondaryContacts>>
    /\ UNCHANGED <<clock, ticks, cacheOp, cacheRet, written, cacheOps>>
    /\ UNCHANGED <<visVars, aggVars, uiVars, phase, requests, svc, calls, lastStep, served>>

\* Time passes between two calls, no more often than calls were made; before
\* the first call and after the last one it changes no call's result.
RepoWait ==
    /\ repoOps \in 1..(MaxRepoOps - 1)
    /\ ticks < repoOps
    /\ Tick

NextRepo ==
    \/ RepoWait
    \/ RepoLoad
    \/ RepoPreload
    \/ RepoQueryUserContacts
    \/ RepoQueryUserSecondaryContacts
    \/ RepoGetContactTrajectory
    \/ RepoGetBoundsInfo
    \/ RepoInitData

SpecRepo == InitRepo /\ [][NextRepo]_vars

\* ---------------------------------------------------------------------------
\* Properties of SpecRepo
\* ---------------------------------------------------------------------------

\* An entry of the category and key is stored and its age is within its ttl.
Unexpired(mc, now, type, key) ==
    /\ (prefix \o type \o "_" \o key) \in DOMAIN mc
    /\ now - mc[prefix \o type \o "_" \o key].timestamp
           <= mc[prefix \o type \o "_" \o key].ttl

CachedData(mc, type, key) == mc[prefix \o type \o "_" \o key].data

\* The key of the trajectory of two individuals: smaller id, "_", larger id.
PairKey(a, b) ==
    IF a <= b THEN ToString(a) \o "_" \o ToString(b) ELSE ToString(b) \o "_" \o ToString(a)

CurrentData == [rawData |-> rawData, contacts |-> contacts, bounds |-> bounds]

\* C12: a cache hit means no network call.  Whenever a read is made while an
\* unexpired entry of its category and key is stored, the call issues no request
\* and resolves with the cached value: queryUserContacts,
\* queryUserSecondaryContacts, getContactTrajectory and getBoundsInfo return the
\* entry's data, initData takes the timestamp list from the entry without
\* requesting it, and loadDataByTimestamp returns true having made the cached
\* snapshot current (the look-ahead copy of that timestamp when one is held).
C12_CacheHitNoRequest ==
    [][ repoOps' # repoOps =>
          LET c == repoOp' IN
          /\ (c.op = "loadDataByTimestamp"
                /\ Unexpired(memoryCache, clock, "contacts", ToString(c.args[1])))
               => /\ c.requested = {}
                  /\ repoRet'.value = TRUE
                  /\ CurrentData' = IF c.args[1] \in DOMAIN dataCache
                                    THEN dataCache[c.args[1]]
                                    ELSE CachedData(memoryCache, "contacts",
                                                    ToString(c.args[1]))
          /\ (c.op = "queryUserContacts"
                /\ Unexpired(memoryCache, clock, "userContacts",
                             "direct_" \o ToString(c.args[1])))
               => /\ c.requested = {}
                  /\ repoRet'.value = CachedData(memoryCache, "userContacts",
                                                 "direct_" \o ToString(c.args[1]))
          /\ (c.op = "queryUserSecondaryContacts"
                /\ Unexpired(memoryCache, clock, "userContacts",
                             "secondary_" \o ToString(c.args[1])))
               => /\ c.requested = {}
                  /\ repoRet'.value = CachedData(memoryCache, "userContacts",
                                                 "secondary_" \o ToString(c.args[1]))
          /\ (c.op = "getContactTrajectory"
                /\ Unexpired(memoryCache, clock, "trajectory",
                             PairKey(c.args[1], c.args[2])))
               => /\ c.requested = {}
                  /\ repoRet'.value = CachedData(memoryCache, "trajectory",
                                                 PairKey(c.args[1], c.args[2]))
          /\ (c.op = "getBoundsInfo" /\ Unexpired(memoryCache, clock, "bounds", "all"))
               => /\ c.requested = {}
                  /\ repoRet'.value = CachedData(memoryCache, "bounds", "all")
          /\ (c.op = "initData" /\ Unexpired(memoryCache, clock, "timestamps", "all"))
               => /\ "/api/timestamps" \notin c.requested
                  /\ allTimestamps' = CachedData(memoryCache, "timestamps", "all")
      ]_vars

\* A query for the contacts of user 7 was answered from the cache, after time
\* has passed since the entry was written.
C12_Witness ==
    /\ repoOp.op = "queryUserContacts"
    /\ repoOp.args = <<7>>
    /\ repoOp.requested = {}
    /\ repoRet.value # <<>>
    /\ Unexpired(memoryCache, clock, "userContacts", "direct_7")
    /\ clock > memoryCache[getCacheKey("userContacts", "direct_7")].timestamp

FetchFailures == {"httpError", "networkError", "badBody"}

RepositoryReads ==
    { "loadDataByTimestamp", "queryUserContacts", "queryUserSecondaryContacts",
      "getContactTrajectory", "getBoundsInfo" }

\* C14: a network, HTTP or parse failure in a read of the repository
\* (loadDataByTimestamp, queryUserContacts, queryUserSecondaryContacts,
\* getContactTrajectory, getBoundsInfo) surfaces to the caller as an error, so
\* that the caller can tell a failed fetch from a valid empty result.
C14_FailureSurfaces ==
    [][ (repoOps' # repoOps /\ repoOp'.op \in RepositoryReads
             /\ repoOp'.outcome \in FetchFailures)
            => repoOp'.raised ]_vars

\* The endpoint of the trajectory of two individuals: smaller id first.
PairEndpoint(a, b) ==
    IF a <= b
    THEN "/api/trajectory/" \o ToString(a) \o "/" \o ToString(b)
    ELSE "/api/trajectory/" \o ToString(b) \o "/" \o ToString(a)

TrajectoryTTL == 15 * 60 * 1000

\* C15: trajectory pair normalisation.  For all ids a and b,
\* getContactTrajectory(a,b) in either order of its arguments requests only the
\* endpoint of the ordered pair and, when it succeeds, stores what it returns
\* under the key min_max with the trajectory lifetime; and a call made in either
\* order while that entry is unexpired returns the entry's data without a request.
C15_TrajectoryPairNormalised ==
    [][ (repoOps' # repoOps /\ repoOp'.op = "getContactTrajectory") =>
          LET a == repoOp'.args[1]
              b == repoOp'.args[2]
              k == getCacheKey("trajectory", PairKey(a, b)) IN
          /\ repoOp'.requested \subseteq {PairEndpoint(a, b)}
          /\ repoOp'.outcome = "ok"
               => /\ k \in DOMAIN memoryCache'
                  /\ memoryCache'[k] = [data |-> repoRet'.value, timestamp |-> clock,
                                        ttl |-> TrajectoryTTL]
          /\ (k \in DOMAIN memoryCache /\ clock - memoryCache[k].timestamp <= TrajectoryTTL)
               => /\ repoOp'.requested = {}
                  /\ repoRet'.value = memoryCache[k].data
                  /\ memoryCache' = memoryCache
      ]_vars

\* The trajectory of 9 and 5 was answered with the stored points of the pair,
\* without a request, some time after they were fetched.
C15_Witness ==
    /\ repoOp.op = "getContactTrajectory"
    /\ repoOp.args = <<9, 5>>
    /\ repoOp.requested = {}
    /\ repoRet.value = ServiceTrajectory(5, 9)
    /\ clock > memoryCache[getCacheKey("trajectory", "5_9")].timestamp

\* C18: prefetch failures are swallowed.  For every failure of the prefetch
\* request (network error, non-OK status, unparseable or wrongly shaped body)
\* preloadDataByTimestamp resolves without raising to its caller, shows nothing
\* to the user and stores no look-ahead entry for that timestamp.
C18_PrefetchFailureStoresNothing ==
    [][ (repoOps' # repoOps /\ repoOp'.op = "preloadDataByTimestamp"
             /\ repoOp'.outcome \in FetchFailures \cup {"badShape"})
            => /\ ~repoOp'.raised
               /\ ~repoOp'.alerted
               /\ repoOp'.args[1] \notin DOMAIN dataCache' ]_vars

\* ---------------------------------------------------------------------------
\* Further properties of Spec
\* ---------------------------------------------------------------------------

\* The requests a step adds to those in flight.
Issued(r) == CopiesIn(r, requests') > CopiesIn(r, requests)

\* C22: the new-contacts computation obtains the preceding timestamp's contacts
\* through the repository: it requests them only when no unexpired cache entry
\* of that timestamp exists, and then from the endpoint the repository uses.
C22_DeltaThroughRepository ==
    [][ \A r \in BagToSet(requests') :
           (r.kind = "previous" /\ Issued(r))
               => /\ ~ContactsEntryLive(memoryCache', clock', r.timestamp)
                  /\ r.endpoint = "apiBaseUrl" ]_vars

LoadInFlight == \E r \in BagToSet(requests) : r.kind = "load"

\* C23: whenever no load is in flight and the last load of the active timestamp
\* succeeded (here: the active timestamp has been loaded and no fetch has failed
\* at all), the loader's current data, which every later redraw uses, is the
\* data of the active timestamp: the records the service holds for it and the
\* contacts grouped from them.
C23_CurrentDataIsActive ==
    (/\ currentTimestamp # <<>>
     /\ ~LoadInFlight
     /\ failures = 0
     /\ currentTimestamp[1] \in served)
        => /\ rawData = svc[currentTimestamp[1]]
           /\ contacts = processContacts(svc[currentTimestamp[1]]).contacts

\* C24: once every pending request has resolved, the stored and rendered
\* new-contacts list is the one computed for the active timestamp: no
\* computation started for a superseded timestamp has overwritten it.
C24_NewContactsOfActive ==
    (BagToSet(requests) = {} /\ calls > 0)
        => /\ lastCalc # NoCalc
           /\ lastCalc.timestamp = currentTimestamp[1]

\* ---------------------------------------------------------------------------
\* The timeline's slider and buttons (SpecSlider)
\* ---------------------------------------------------------------------------

\* One data service is enough: the controls never look at the records.
InitSlider ==
    /\ Init
    /\ svc = (1 :> <<ServiceRecord(1, 2, 1)>> @@ 3 :> <<>>)

\* The controls exist once initMapAnimation has bound them.
ControlsBound == phase = "running" /\ allTimestamps # <<>>

\* slider.oninput with the slider dragged to index; the browser raises the
\* event when the value changes.
SliderInput ==
    /\ ControlsBound
    /\ uiEvents < MaxUiEvents
    /\ \E index \in (0..(Len(allTimestamps) - 1)) \ {sliderValue} :
         LET timestamp == allTimestamps[index + 1] IN
         /\ sliderValue' = index
         /\ IF <<timestamp>> = lastRequestedTimestamp
            THEN UNCHANGED <<sliderPendingTimestamp, sliderThrottleTimer>>
            ELSE /\ sliderPendingTimestamp' = <<timestamp>>
                 /\ sliderThrottleTimer' = IF sliderThrottleTimer = 0
                                           THEN sliderThrottleTimer + 1
                                           ELSE sliderThrottleTimer
    /\ uiEvents' = uiEvents + 1
    /\ UNCHANGED <<lastRequestedTimestamp, lastSetTimestamp, queryVars, playVars>>
    /\ UNCHANGED <<currentTimestamp, allNewContacts, lastCalc, drawnMap, totalContacts>>
    /\ UNCHANGED <<cacheVars, loaderVars, netVars, aggVars, repoVars>>

\* The throttle timeout fires: setTimestamp of the pending timestamp, unless
\* it is null or the one requested last.
SliderTimerFires ==
    /\ sliderThrottleTimer > 0
    /\ sliderThrottleTimer' = sliderThrottleTimer - 1
    /\ sliderPendingTimestamp' = <<>>
    /\ IF sliderPendingTimestamp # <<>> /\ sliderPendingTimestamp # lastRequestedTimestamp
       THEN /\ lastRequestedTimestamp' = sliderPendingTimestamp
            /\ lastSetTimestamp' = sliderPendingTimestamp
            /\ setTimestamp(sliderPendingTimestamp[1])
       ELSE /\ UNCHANGED <<lastRequestedTimestamp, lastSetTimestamp>>
            /\ UNCHANGED <<cacheVars, loaderVars, visVars, netVars, aggVars, repoVars>>
    /\ UNCHANGED <<uiEvents, queryVars, playVars>>

\* The previous button: prevTimestamp().
PrevTimestamp ==
    /\ ControlsBound
    /\ uiEvents < MaxUiEvents
    /\ uiEvents' = uiEvents + 1
    /\ LET currentIndex == indexOf(allTimestamps, currentTimestamp[1]) - 1 IN
       IF currentIndex > 0
       THEN /\ setTimestamp(allTimestamps[Max({0, currentIndex - 1}) + 1])
            /\ lastSetTimestamp' = <<allTimestamps[Max({0, currentIndex - 1}) + 1]>>
       ELSE /\ UNCHANGED lastSetTimestamp
            /\ UNCHANGED <<cacheVars, loaderVars, visVars, netVars, aggVars, repoVars>>
    /\ UNCHANGED <<sliderThrottleTimer, sliderPendingTimestamp, lastRequestedTimestamp,
                   queryVars, playVars>>

\* The next button: nextTimestamp().
NextTimestamp ==
    /\ ControlsBound
    /\ uiEvents < MaxUiEvents
    /\ uiEvents' = uiEvents + 1
    /\ LET currentIndex == indexOf(allTimestamps, currentTimestamp[1]) - 1 IN
       IF currentIndex < Len(allTimestamps) - 1
       THEN /\ setTimestamp(allTimestamps[Min({Len(allTimestamps) - 1, currentIndex + 1}) + 1])
            /\ lastSetTimestamp'
                 = <<allTimestamps[Min({Len(allTimestamps) - 1, currentIndex + 1}) + 1]>>
       ELSE /\ UNCHANGED lastSetTimestamp
            /\ UNCHANGED <<cacheVars, loaderVars, visVars, netVars, aggVars, repoVars>>
    /\ UNCHANGED <<sliderThrottleTimer, sliderPendingTimestamp, lastRequestedTimestamp,
                   queryVars, playVars>>

NextSlider ==
    \/ AppInit
    \/ SliderInput
    \/ SliderTimerFires
    \/ PrevTimestamp
    \/ NextTimestamp
    \/ LoadResolve
    \/ PreloadResolve
    \/ PreviousResolve

SpecSlider == InitSlider /\ [][NextSlider]_vars

\* C25: slider throttling.  Once slider input has stopped, the throttle timer
\* has fired and every load has resolved, the timestamp last passed to
\* setTimestamp, and hence the active timestamp, is the one at the slider's
\* position; and at most one throttle timer is pending at any time.
C25_SliderSettles ==
    /\ sliderThrottleTimer <= 1
    /\ (ControlsBound /\ sliderThrottleTimer = 0 /\ ~LoadInFlight /\ failures = 0)
          => /\ currentTimestamp = <<allTimestamps[sliderValue + 1]>>
             /\ lastSetTimestamp # <<>>
                  => lastSetTimestamp = <<allTimestamps[sliderValue + 1]>>

\* ---------------------------------------------------------------------------
\* Further properties of SpecRepo
\* ---------------------------------------------------------------------------

\* C26: state unchanged on error.  When a read of the repository fails
\* (network error, non-OK status, unparseable body), no cache entry is created
\* or modified and the loader's rawData, contacts and bounds are what they were
\* before the call; a failed loadDataByTimestamp returns false.
C26_StateUnchangedOnError ==
    [][ (repoOps' # repoOps /\ repoOp'.op \in RepositoryReads
             /\ repoOp'.outcome \in FetchFailures)
            => /\ \A id \in CacheIds :
                    Lookup(memoryCache', clock', id) = Lookup(memoryCache, clock', id)
               /\ dataCache' = dataCache
               /\ CurrentData' = CurrentData
               /\ repoOp'.op = "loadDataByTimestamp" => repoRet'.value = FALSE ]_vars

\* Calls of loadDataByTimestamp and preloadDataByTimestamp with any time
\* between them.
NextFreshness ==
    \/ Tick
    \/ RepoLoad
    \/ RepoPreload

SpecFreshness == InitRepo /\ [][NextFreshness]_vars

\* C27: cache freshness.  Whenever loadDataByTimestamp serves contacts without
\* a request, from the look-ahead cache or from the contacts category of the
\* cache manager, what it serves was fetched from the data service no more than
\* the 30-minute contacts TTL earlier.
C27_CacheFreshness ==
    [][ (repoOps' # repoOps /\ repoOp'.op = "loadDataByTimestamp"
             /\ repoOp'.requested = {} /\ repoRet'.value = TRUE)
            => LET timestamp == repoOp'.args[1]
                   ck == getCacheKey("contacts", ToString(timestamp)) IN
               IF timestamp \in DOMAIN dataCache
               THEN clock - preloadedAt[timestamp] <= DocumentedTTL.contacts
               ELSE /\ ck \in DOMAIN memoryCache
                    /\ clock - memoryCache[ck].timestamp <= DocumentedTTL.contacts ]_vars

\* What a loadDataByTimestamp that misses every cache makes of a record list.
DirectLoad(timestamp, records) ==
    LET f == loadFetched(rawData, contacts, bounds, memoryCache, clock, timestamp, "ok",
                         records)
    IN [rawData |-> f.rawData, contacts |-> f.contacts, bounds |-> f.bounds]

\* C28: prefetch does the work of a direct load.  For every record list of the
\* data service, the empty one included, a loadDataByTimestamp served from the
\* look-ahead entry that preloadDataByTimestamp made of the list leaves rawData,
\* contacts and bounds equal to those of a direct load of the same list.
C28_PrefetchEqualsDirectLoad ==
    [][ (repoOps' # repoOps /\ repoOp'.op = "loadDataByTimestamp"
             /\ repoOp'.args[1] \in DOMAIN dataCache
             /\ dataCache[repoOp'.args[1]].rawData = RepoServiceData[repoOp'.args[1]])
            => CurrentData' = DirectLoad(repoOp'.args[1], RepoServiceData[repoOp'.args[1]])
      ]_vars

\* ---------------------------------------------------------------------------
\* App.queryUser: overlapping queries (SpecQuery)
\* ---------------------------------------------------------------------------

\* What queryUserContacts / queryUserSecondaryContacts do once their fetch has
\* ended: a parsed 2xx body is aggregated, stored and cached; any other outcome
\* is alerted and [] returned.
queryFetched(uc, mc, now, kind, contactType, userId, outcome, responseData) ==
    IF outcome \in {"ok", "badShape"}
    THEN LET contactsOf == IF outcome = "ok"
                           THEN processContactData(responseData, contactType)
                           ELSE malformedContacts(contactType) IN
         [ userContacts |-> [u \in DOMAIN uc \cup {userId} |->
                                 IF u = userId THEN contactsOf ELSE uc[u]],
           memoryCache |-> set(mc, now, "userContacts", kind \o "_" \o ToString(userId),
                               contactsOf, <<>>),
           ret |-> contactsOf ]
    ELSE [userContacts |-> uc, memoryCache |-> mc, ret |-> <<>>]

\* renderQueryResults(userId, directContacts, secondaryContacts)
renderQueryResults(userId, directContacts, secondaryContacts) ==
    /\ visQueryUserId' = <<userId>>
    /\ currentDirectContacts' = directContacts
    /\ currentSecondaryContacts' = secondaryContacts

\* queryUser from the return of queryUserContacts on: queryUserSecondaryContacts
\* answers from the cache, and the results are rendered, or it sends its fetch
\* and the call waits again.  waiting holds the other calls.
thenSecondary(userId, directContacts, mc, waiting) ==
    LET hit == get(mc, clock, "userContacts", "secondary_" \o ToString(userId)) IN
    /\ memoryCache' = hit.cache
    /\ IF hit.found
       THEN /\ userSecondaryContacts'
                 = [u \in DOMAIN userSecondaryContacts \cup {userId} |->
                      IF u = userId THEN hit.data ELSE userSecondaryContacts[u]]
            /\ renderQueryResults(userId, directContacts, hit.data)
            /\ queries' = waiting
       ELSE /\ queries' = Append(waiting, [ userId |-> userId, stage |-> "secondary",
                                            contacts |-> directContacts ])
            /\ UNCHANGED <<userSecondaryContacts, visQueryUserId, currentDirectContacts,
                           currentSecondaryContacts>>

\* App.queryUser(userId) up to its first fetch.
QueryUser ==
    /\ queryCalls < MaxQueryCalls
    /\ queryCalls' = queryCalls + 1
    /\ \E userId \in RepoUserIds :
         LET hit == get(memoryCache, clock, "userContacts", "direct_" \o ToString(userId)) IN
         /\ appQueryUserId' = <<userId>>
         /\ IF hit.found
            THEN /\ userContacts' = [u \in DOMAIN userContacts \cup {userId} |->
                                        IF u = userId THEN hit.data ELSE userContacts[u]]
                 /\ thenSecondary(userId, hit.data, hit.cache, queries)
            ELSE /\ memoryCache' = hit.cache
                 /\ queries' = Append(queries, [ userId |-> userId, stage |-> "direct",
                                                  contacts |-> <<>> ])
                 /\ UNCHANGED <<userContacts, userSecondaryContacts, visQueryUserId,
                                currentDirectContacts, currentSecondaryContacts>>
    /\ UNCHANGED <<loaderVars, repoOp, repoRet, repoOps, preloadedAt, failures>>
    /\ UNCHANGED <<clock, ticks, cacheOp, cacheRet, written, cacheOps>>
    /\ UNCHANGED <<visVars, aggVars, phase, requests, svc, calls, lastStep, served>>
    /\ UNCHANGED <<sliderThrottleTimer, sliderPendingTimestamp, lastRequestedTimestamp,
                   lastSetTimestamp, uiEvents, playVars>>

\* The fetch a queryUser call waits for ends, and the call runs on to its next
\* fetch or to renderQueryResults.
QueryResolve ==
    /\ \E i \in 1..Len(queries), outcome \in RepoOutcomesNow :
         LET q == queries[i]
             waiting == SubSeq(queries, 1, i - 1) \o SubSeq(queries, i + 1, Len(queries)) IN
         /\ failures' = failures + (IF outcome = "ok" THEN 0 ELSE 1)
         /\ IF q.stage = "direct"
            THEN LET f == queryFetched(userContacts, memoryCache, clock, "direct", "direct",
                                       q.userId, outcome, ServiceUserContacts(q.userId)) IN
                 /\ userContacts' = f.userContacts
                 /\ thenSecondary(q.userId, f.ret, f.memoryCache, waiting)
            ELSE LET f == queryFetched(userSecondaryContacts, memoryCache, clock, "secondary",
                                       "indirect", q.userId, outcome,
                                       ServiceSecondaryContacts(q.userId)) IN
                 /\ userSecondaryContacts' = f.userContacts
                 /\ memoryCache' = f.memoryCache
                 /\ renderQueryResults(q.userId, q.contacts, f.ret)
                 /\ queries' = waiting
                 /\ UNCHANGED userContacts
    /\ UNCHANGED <<appQueryUserId, queryCalls>>
    /\ UNCHANGED <<loaderVars, repoOp, repoRet, repoOps, preloadedAt>>
    /\ UNCHANGED <<clock, ticks, cacheOp, cacheRet, written, cacheOps>>
    /\ UNCHANGED <<visVars, aggVars, phase, requests, svc, calls, lastStep, served>>
    /\ UNCHANGED <<sliderThrottleTimer, sliderPendingTimestamp, lastRequestedTimestamp,
                   lastSetTimestamp, uiEvents, playVars>>

NextQuery ==
    \/ QueryUser
    \/ QueryResolve

SpecQuery == InitRepo /\ [][NextQuery]_vars

\* C29: in every interleaving, once every fetch of overlapping queryUser calls
\* has resolved, the rendered query results (Visualization.currentQueryUserId,
\* currentDirectContacts, currentSecondaryContacts) are those of the user
\* requested last, and agree with App.currentQueryUserId.
C29_LatestQueryRendered ==
    (Len(queries) = 0 /\ queryCalls >= 2 /\ failures = 0)
        => /\ visQueryUserId = appQueryUserId
           /\ currentDirectContacts
                = processContactData(ServiceUserContacts(appQueryUserId[1]), "direct")
           /\ currentSecondaryContacts
                = processContactData(ServiceSecondaryContacts(appQueryUserId[1]), "indirect")

\* ---------------------------------------------------------------------------
\* Playback (SpecPlay)
\* ---------------------------------------------------------------------------

\* Mutation of reachedLast: the end of the timeline is never noticed.
reachedLastNever(current, maxTimestamp) == FALSE

\* this.mapAnimation.currentTimestamp === this.mapAnimation.maxTimestamp
reachedLast(current, maxTimestamp) == current = maxTimestamp

\* mapAnimation.maxTimestamp: null (<<>>) until initMapAnimation sets it.
maxTimestamp ==
    IF allTimestamps = <<>> THEN <<>> ELSE <<allTimestamps[Len(allTimestamps)]>>

\* The position of the active timestamp on the timeline, from 0.
currentIndex == indexOf(allTimestamps, currentTimestamp[1]) - 1

\* The setTimestamp calls a playback from the active timestamp makes.
TicksToLast == Len(allTimestamps) - 1 - currentIndex

\* The play button: playMapAnimation().  A playback is begun only when the
\* calls left cover it.
PlayMapAnimation ==
    /\ ControlsBound
    /\ playCalls < MaxPlayCalls
    /\ playCalls' = playCalls + 1
    /\ IF playing
       THEN UNCHANGED <<playing, timers>>
       ELSE /\ calls + TicksToLast <= MaxCalls
            /\ playing' = TRUE
            /\ timers' = timers + 1
    /\ UNCHANGED playbackTicks
    /\ UNCHANGED <<sliderThrottleTimer, sliderPendingTimestamp, lastRequestedTimestamp,
                   lastSetTimestamp, uiEvents, queryVars>>
    /\ UNCHANGED <<cacheVars, loaderVars, visVars, netVars, aggVars, repoVars>>

\* The interval fires: nextTimestamp(), then pauseMapAnimation() when the
\* active timestamp is the last one.
PlaybackTick ==
    /\ timers > 0
    /\ playbackTicks' = IF playbackTicks < MaxPlaybackTicks
                        THEN playbackTicks + 1
                        ELSE playbackTicks
    /\ IF currentIndex < Len(allTimestamps) - 1
       THEN /\ setTimestamp(allTimestamps[Min({Len(allTimestamps) - 1, currentIndex + 1}) + 1])
            /\ lastSetTimestamp'
                 = <<allTimestamps[Min({Len(allTimestamps) - 1, currentIndex + 1}) + 1]>>
       ELSE /\ UNCHANGED lastSetTimestamp
            /\ UNCHANGED <<cacheVars, loaderVars, visVars, netVars, aggVars, repoVars>>
    /\ IF reachedLast(currentTimestamp', maxTimestamp) /\ playing
       THEN /\ playing' = FALSE
            /\ timers' = timers - 1
       ELSE UNCHANGED <<playing, timers>>
    /\ UNCHANGED playCalls
    /\ UNCHANGED <<sliderThrottleTimer, sliderPendingTimestamp, lastRequestedTimestamp,
                   uiEvents, queryVars>>

\* The previous button, pressed while nothing plays.
PrevWhilePaused ==
    /\ ~playing
    /\ PrevTimestamp

NextPlay ==
    \/ AppInit
    \/ PlayMapAnimation
    \/ PlaybackTick
    \/ PrevWhilePaused
    \/ LoadResolve
    \/ PreloadResolve
    \/ PreviousResolve

\* setInterval runs its callback again and again until clearInterval.
SpecPlay == InitSlider /\ [][NextPlay]_vars /\ WF_vars(PlaybackTick)

====
